---- MODULE Spec2Model ----
(***************************************************************************)
(* AiProofTrace: canonicalizer, record hasher, Merkle batch builder,       *)
(* proof generator/verifier and the verification orchestrator.             *)
(*                                                                         *)
(* Strings are sequences of characters.  A character is a record [c |-> s] *)
(* holding one UTF-16 code unit, or a digest block [k, enc, v] standing    *)
(* for the 64 hex digits that keccak256 returns for the input k (keccak256 *)
(* is taken to be collision free, so a digest is named by its input).      *)
(* v = 0 is the digest as keccak256 prints it (lower case), v = 1 the same *)
(* digits in upper case, v = 2 the digits with one of them altered and     *)
(* v = 3 the altered digits in upper case.                                 *)
(***************************************************************************)
EXTENDS Integers, Sequences, FiniteSets, TLC

VARIABLES
    pc,          \* position of the driver of the pure-function models
    hashes,      \* argument of buildMerkleBatch
    batch,       \* MerkleBatch returned by buildMerkleBatch, or NoBatch
    prevHashes,  \* the argument of the previous buildMerkleBatch call
    prevBatch,   \* the batch the previous call returned
    target,      \* leafHash argument of generateProof
    proof,       \* MerkleProof returned by generateProof, NULL, or NoProof
    valid,       \* result of verifyProof
    computed,    \* what computeRoot(hashes) returned
    prevComputed, \* what computeRoot(prevHashes) returned
    tampered,    \* a proof with one byte of one of its strings changed
    changedFrom, \* the string of the proof that was changed
    changedTo,   \* what it was changed to
    cinput,      \* argument of canonicalize
    wrapped,     \* cinput has been nested inside another value
    cout,        \* what canonicalize(cinput) returned or threw
    ctext,       \* argument of isCanonical
    textKind,    \* where ctext comes from
    isCan,       \* result of isCanonical(ctext)
    recanon,     \* what parseAndCanonicalize(ctext) returned or threw
    record,      \* argument of hashInference
    recHash,     \* what hashInference(record) returned
    cliHash,     \* what the CLI's hashInference(record) returned
    prevRecord,  \* the argument of the previous hashInference call
    prevRecHash, \* what the previous call returned
    lastEdit,    \* how record was made from prevRecord
    operands,    \* the two hashes handed to hashPair and to combineHashes
    combos,      \* what the two returned, for either order of the operands
    claimed,     \* the expectedHash handed to verifyInferenceHash
    matches,     \* what verifyInferenceHash returned for record and claimed
    inferences,  \* Storage.state.inferences, in insertion order
    batches,     \* Storage.state.batches, in insertion order
    anchors,     \* Storage.state.anchors, in insertion order
    anchoredAt,  \* per chain, the registry contract's anchoredAt mapping
    txs,         \* POST /api/anchor handlers waiting for their transaction
    txCount,     \* transactions sent so far
    clock,       \* the clock behind Date.now() and block.timestamp
    response,    \* the last HTTP response sent
    vcall,       \* a verifyInference call waiting for its live read
    vinput,      \* input and options of the last verifyInference call
    vread,       \* what the live read of that call returned
    vresult,     \* what that call returned
    vqueried,    \* the collaborators that call has queried, in order
    inflight     \* handlers that are past their await and have not responded

merkleVars == <<hashes, batch, prevHashes, prevBatch, target, proof, valid,
               computed, prevComputed>>
tamperVars == <<tampered, changedFrom, changedTo>>
canonVars == <<cinput, wrapped, cout, ctext, textKind, isCan, recanon>>
hasherVars == <<record, recHash, cliHash, prevRecord, prevRecHash, lastEdit,
               operands, combos, claimed, matches>>
storeVars == <<inferences, batches, anchors>>
chainVars == <<anchoredAt, txs, txCount>>
verifyVars == <<vcall, vinput, vread, vresult, vqueried>>
sysVars == <<storeVars, chainVars, clock, response, verifyVars, inflight>>
nonMerkleVars == <<canonVars, hasherVars, sysVars>>
nonCanonVars == <<merkleVars, tamperVars, hasherVars, sysVars>>
nonHasherVars == <<merkleVars, tamperVars, canonVars, sysVars>>
nonSysVars == <<pc, merkleVars, tamperVars, canonVars, hasherVars>>
vars == <<pc, merkleVars, tamperVars, canonVars, hasherVars, sysVars>>

(* Bounds *)
MaxLeaves == 4        \* longest list of hashes handed to buildMerkleBatch
MaxTamperLeaves == 3  \* longest list of hashes in the tampering model
MaxProps == 2         \* most properties (elements) of a generated object (array)
MaxInferences == 1    \* most inferences recorded by the server
MaxBatches == 2       \* most batches stored by the server
MaxTxs == 2           \* most anchoring transactions sent by the server
MaxBlocks == 3        \* most blocks of the chain in the registry model
MaxInFlight == 2      \* most requests in flight at once in the concurrency model

(* Characters and strings *)

C(ch) == [c |-> ch]
Str(s) == [i \in 1..Len(s) |-> C(s[i])]
IsLit(e) == "c" \in DOMAIN e

\* UTF-16 code units of the characters the model uses
CodeUnit ==
    (" " :> 32) @@ ("\"" :> 34) @@ ("," :> 44) @@ ("0" :> 48) @@ ("1" :> 49) @@
    ("2" :> 50) @@ ("3" :> 51) @@ ("4" :> 52) @@ ("5" :> 53) @@ ("6" :> 54) @@
    ("7" :> 55) @@ ("8" :> 56) @@ ("9" :> 57) @@ (":" :> 58) @@ ("A" :> 65) @@
    ("B" :> 66) @@ ("C" :> 67) @@ ("X" :> 88) @@ ("[" :> 91) @@ ("]" :> 93) @@ ("_" :> 95) @@
    ("a" :> 97) @@ ("b" :> 98) @@ ("c" :> 99) @@ ("d" :> 100) @@ ("e" :> 101) @@
    ("f" :> 102) @@ ("g" :> 103) @@ ("h" :> 104) @@ ("i" :> 105) @@
    ("k" :> 107) @@ ("l" :> 108) @@ ("m" :> 109) @@ ("n" :> 110) @@
    ("o" :> 111) @@ ("p" :> 112) @@ ("r" :> 114) @@ ("s" :> 115) @@
    ("t" :> 116) @@ ("u" :> 117) @@ ("x" :> 120) @@ ("{" :> 123) @@ ("}" :> 125)

LowerOf(ch) ==
    CASE ch = "A" -> "a" [] ch = "B" -> "b" [] ch = "C" -> "c"
      [] ch = "X" -> "x" [] OTHER -> ch

UpperOf(ch) ==
    CASE ch = "a" -> "A" [] ch = "b" -> "B" [] ch = "c" -> "C"
      [] ch = "x" -> "X" [] OTHER -> ch

\* String.prototype.toLowerCase / toUpperCase
toLowerCase(s) ==
    [i \in 1..Len(s) |->
        IF IsLit(s[i]) THEN C(LowerOf(s[i].c))
        ELSE IF s[i].v = 1 THEN [s[i] EXCEPT !.v = 0]
        ELSE IF s[i].v = 3 THEN [s[i] EXCEPT !.v = 2]
        ELSE s[i]]

toUpperCase(s) ==
    [i \in 1..Len(s) |->
        IF IsLit(s[i]) THEN C(UpperOf(s[i].c))
        ELSE IF s[i].v = 0 THEN [s[i] EXCEPT !.v = 1]
        ELSE IF s[i].v = 2 THEN [s[i] EXCEPT !.v = 3]
        ELSE s[i]]

\* s.slice(n): the string without its first n code units
Slice(s, n) == IF n >= Len(s) THEN <<>> ELSE SubSeq(s, n + 1, Len(s))

StartsWith0x(s) == Len(s) >= 2 /\ s[1] = C("0") /\ s[2] = C("x")

\* s.replace(/^0x/, '')
Strip0x(s) == IF StartsWith0x(s) THEN Slice(s, 2) ELSE s

RECURSIVE StrLess(_, _)
\* order of single characters: code units; a digest block sorts after the
\* literal characters, two blocks by spelling, encoding and input
CharLess(a, b) ==
    IF IsLit(a) /\ IsLit(b) THEN CodeUnit[a.c] < CodeUnit[b.c]
    ELSE IF IsLit(a) THEN TRUE
    ELSE IF IsLit(b) THEN FALSE
    ELSE IF a.v # b.v THEN a.v < b.v
    ELSE IF a.enc # b.enc THEN a.enc = "hex"
    ELSE StrLess(a.k, b.k)

\* a < b on JavaScript strings (lexicographic on code units)
StrLess(a, b) ==
    IF Len(b) = 0 THEN FALSE
    ELSE IF Len(a) = 0 THEN TRUE
    ELSE IF Head(a) = Head(b) THEN StrLess(Tail(a), Tail(b))
    ELSE CharLess(Head(a), Head(b))

RECURSIVE InsertSorted(_, _)
InsertSorted(x, sorted) ==
    IF sorted = <<>> THEN <<x>>
    ELSE IF StrLess(x, Head(sorted)) THEN <<x>> \o sorted
    ELSE <<Head(sorted)>> \o InsertSorted(x, Tail(sorted))

RECURSIVE SortStrings(_)
\* Array.prototype.sort() with the default comparator (stable, ascending)
SortStrings(list) ==
    IF list = <<>> THEN <<>>
    ELSE InsertSorted(list[Len(list)], SortStrings(SubSeq(list, 1, Len(list) - 1)))

Returned(v) == [value |-> v]
Threw(msg) == [error |-> msg]
IsThrown(r) == "error" \in DOMAIN r

\* a string-valued call that threw: the exception in place of the string
ThrownStr(msg) == <<[error |-> msg]>>
IsThrownStr(s) == Len(s) = 1 /\ "error" \in DOMAIN s[1]

HexDigits == {"0", "1", "2", "3", "4", "5", "6", "7", "8", "9",
              "a", "b", "c", "d", "e", "f", "A", "B", "C"}

\* ethers isHexString: 0x followed by whole bytes of hex digits (a digest
\* block is 32 bytes)
IsHexString(s) ==
    /\ StartsWith0x(s)
    /\ \A i \in 3..Len(s) : IsLit(s[i]) => s[i].c \in HexDigits
    /\ Cardinality({i \in 3..Len(s) : IsLit(s[i])}) % 2 = 0

\* ethers keccak256 of a 0x-prefixed hex string: the digest of the bytes;
\* getBytes throws on anything that is not a hex string
keccak256(hex) ==
    IF ~IsHexString(hex) THEN ThrownStr("invalid BytesLike value")
    ELSE <<C("0"), C("x"),
           [k |-> toLowerCase(Slice(hex, 2)), enc |-> "hex", v |-> 0]>>

\* ethers keccak256(toUtf8Bytes(text))
keccak256Utf8(text) ==
    <<C("0"), C("x"), [k |-> text, enc |-> "utf8", v |-> 0]>>

(* merkle.ts *)

normalizeHash(hash) == <<C("0"), C("x")>> \o Strip0x(toLowerCase(hash))

\* hashPair that hashes only the first hash of the sorted pair
hashPairFirstOnly(left, right) ==
    keccak256(SortStrings(<<normalizeHash(left), normalizeHash(right)>>)[1])

hashPair(left, right) ==
    LET normalizedLeft == normalizeHash(left)
        normalizedRight == normalizeHash(right)
        sorted == SortStrings(<<normalizedLeft, normalizedRight>>)
        combined == sorted[1] \o Slice(sorted[2], 2)
    IN  keccak256(combined)

\* buildNextLevel that leaves the unpaired last node of an odd level out
buildNextLevelDropOdd(currentLevel) ==
    [p \in 1..(Len(currentLevel) \div 2) |->
        hashPair(currentLevel[2 * p - 1], currentLevel[2 * p])]

\* right ?? left: the last node of an odd level is paired with itself
buildNextLevel(currentLevel) ==
    [p \in 1..((Len(currentLevel) + 1) \div 2) |->
        LET left == currentLevel[2 * p - 1]
            rightHash == IF 2 * p <= Len(currentLevel)
                         THEN currentLevel[2 * p] ELSE left
        IN  hashPair(left, rightHash)]

RECURSIVE GrowLevels(_)
\* the while loop of buildTree
GrowLevels(levels) ==
    IF Len(levels[Len(levels)]) > 1
    THEN LET nextLevel == buildNextLevel(levels[Len(levels)])
         IN  IF \E i \in 1..Len(nextLevel) : IsThrownStr(nextLevel[i])
             THEN <<>>     \* keccak256 threw inside hashPair
             ELSE GrowLevels(Append(levels, nextLevel))
    ELSE levels

\* buildTree that keeps the caller's order of the leaves
buildTreeUnsorted(leaves) ==
    GrowLevels(<<[i \in 1..Len(leaves) |-> normalizeHash(leaves[i])]>>)

\* buildTree that sorts the leaves as given and normalizes them afterwards
buildTreeSortFirst(leaves) ==
    LET sortedLeaves == SortStrings(leaves)
    IN  GrowLevels(<<[i \in 1..Len(leaves) |-> normalizeHash(sortedLeaves[i])]>>)

buildTree(leaves) ==
    LET normalizedLeaves == [i \in 1..Len(leaves) |-> normalizeHash(leaves[i])]
        sortedLeaves == SortStrings(normalizedLeaves)
    IN  GrowLevels(<<sortedLeaves>>)

\* buildMerkleBatch that answers an empty list with an empty batch
buildMerkleBatchEmptyRoot(hs, id, now) ==
    LET tree == buildTree(hs)
        rootLevel == tree[Len(tree)]
    IN  IF tree = <<>> THEN Threw("invalid BytesLike value")
        ELSE [batch_id |-> id,
              root |-> IF Len(rootLevel) = 1 THEN rootLevel[1] ELSE <<C("0"), C("x")>>,
              leaves |-> tree[1],
              tree |-> tree,
              created_at |-> now,
              leaf_count |-> Len(hs)]

buildMerkleBatch(hs, id, now) ==
    IF Len(hs) = 0 THEN Threw("Cannot create batch with no hashes")
    ELSE LET tree == buildTree(hs)
             rootLevel == tree[Len(tree)]
         IN  IF tree = <<>> THEN Threw("invalid BytesLike value")
             ELSE IF Len(rootLevel) # 1 THEN Threw("Invalid tree structure")
             ELSE [batch_id |-> id,
                   root |-> rootLevel[1],
                   leaves |-> tree[1],
                   tree |-> tree,
                   created_at |-> now,
                   leaf_count |-> Len(hs)]

computeRoot(hs) ==
    LET b == buildMerkleBatch(hs, 0, 0)
    IN  IF IsThrown(b) THEN ThrownStr(b.error) ELSE b.root

\* findLeafIndex that looks for the target as the caller spelled it
findLeafIndexExact(sortedLeaves, targetLeaf) ==
    LET hits == {i \in 1..Len(sortedLeaves) : sortedLeaves[i] = targetLeaf}
    IN  IF hits = {} THEN -1
        ELSE (CHOOSE i \in hits : \A j \in hits : i <= j) - 1

\* index (from 0) of the first leaf equal to the target, or -1
findLeafIndex(sortedLeaves, targetLeaf) ==
    LET normalized == normalizeHash(targetLeaf)
        hits == {i \in 1..Len(sortedLeaves) :
                    toLowerCase(sortedLeaves[i]) = toLowerCase(normalized)}
    IN  IF hits = {} THEN -1
        ELSE (CHOOSE i \in hits : \A j \in hits : i <= j) - 1

NULL == [null |-> TRUE]
IsNull(r) == "null" \in DOMAIN r

RECURSIVE ProofPathNoFallback(_, _, _)
\* generateProof's loop without the own-node fallback: a missing sibling
\* is skipped
ProofPathNoFallback(tree, level, currentIndex) ==
    IF level >= Len(tree) - 1 THEN <<>>
    ELSE LET currentLevel == tree[level + 1]
             isRight == currentIndex % 2 = 1
             siblingIndex == IF isRight THEN currentIndex - 1 ELSE currentIndex + 1
         IN  (IF siblingIndex < Len(currentLevel)
              THEN <<currentLevel[siblingIndex + 1]>> ELSE <<>>)
                \o ProofPathNoFallback(tree, level + 1, currentIndex \div 2)

RECURSIVE ProofPath(_, _, _)
\* the for loop of generateProof from `level` (from 0) upwards
ProofPath(tree, level, currentIndex) ==
    IF level >= Len(tree) - 1 THEN <<>>
    ELSE LET currentLevel == tree[level + 1]
             isRight == currentIndex % 2 = 1
             siblingIndex == IF isRight THEN currentIndex - 1 ELSE currentIndex + 1
             sibling == IF siblingIndex < Len(currentLevel)
                        THEN currentLevel[siblingIndex + 1]
                        ELSE currentLevel[currentIndex + 1]
         IN  (IF Len(sibling) > 0 THEN <<sibling>> ELSE <<>>)
                \o ProofPath(tree, level + 1, currentIndex \div 2)

generateProof(b, leafHash) ==
    LET leafIndex == findLeafIndex(b.leaves, leafHash)
    IN  IF leafIndex = -1 THEN NULL
        ELSE [leaf |-> normalizeHash(leafHash),
              proof |-> ProofPath(b.tree, 0, leafIndex),
              root |-> b.root,
              leaf_index |-> leafIndex]

RECURSIVE FoldPath(_, _)
FoldPath(current, path) ==
    IF path = <<>> \/ IsThrownStr(current) THEN current
    ELSE FoldPath(hashPair(current, Head(path)), Tail(path))

verifyProof(p) ==
    LET current == FoldPath(normalizeHash(p.leaf), p.proof)
    IN  IF IsThrownStr(current) THEN Threw(current[1].error)
        ELSE Returned(toLowerCase(current) = toLowerCase(normalizeHash(p.root)))

(* JavaScript values: undefined, null, strings, numbers, booleans, arrays  *)
(* and objects.  An object holds its own properties in property order:     *)
(* array-index keys in ascending numeric order, then the other keys in     *)
(* the order they were created.                                            *)

Undefined == [undef |-> TRUE]
StrV(s) == [str |-> s]
Num(n) == [num |-> n]
Bool(b) == [bool |-> b]
Arr(items) == [arr |-> items]
Obj(entries) == [obj |-> entries]

IsUndefined(v) == "undef" \in DOMAIN v
IsString(v) == "str" \in DOMAIN v
IsNumber(v) == "num" \in DOMAIN v
IsBoolean(v) == "bool" \in DOMAIN v
IsArray(v) == "arr" \in DOMAIN v
IsObject(v) == "obj" \in DOMAIN v

TypeOf(v) ==
    IF IsUndefined(v) THEN "undefined"
    ELSE IF IsString(v) THEN "string"
    ELSE IF IsNumber(v) THEN "number"
    ELSE IF IsBoolean(v) THEN "boolean"
    ELSE "object"

Digits == <<"0", "1", "2", "3", "4", "5", "6", "7", "8", "9">>
IsDigit(e) == IsLit(e) /\ \E d \in 1..10 : Digits[d] = e.c
DigitValue(e) == (CHOOSE d \in 1..10 : Digits[d] = e.c) - 1

RECURSIVE DigitsToNat(_)
DigitsToNat(s) ==
    IF s = <<>> THEN 0
    ELSE 10 * DigitsToNat(SubSeq(s, 1, Len(s) - 1)) + DigitValue(s[Len(s)])

RECURSIVE NatToStr(_)
\* Number.prototype.toString of a non-negative integer
NatToStr(n) ==
    IF n < 10 THEN <<C(Digits[n + 1])>>
    ELSE NatToStr(n \div 10) \o <<C(Digits[(n % 10) + 1])>>

\* an array index: the canonical decimal spelling of an integer
IsArrayIndex(key) ==
    /\ Len(key) > 0
    /\ \A i \in 1..Len(key) : IsDigit(key[i])
    /\ Len(key) > 1 => key[1] # C("0")

HasKey(entries, key) == \E i \in 1..Len(entries) : entries[i].key = key

\* obj[key]
Get(o, key) ==
    IF HasKey(o.obj, key)
    THEN o.obj[CHOOSE i \in 1..Len(o.obj) : o.obj[i].key = key].val
    ELSE Undefined

\* Object.keys(obj)
ObjectKeys(o) == [i \in 1..Len(o.obj) |-> o.obj[i].key]

\* the own properties after obj[key] = val
SetEntry(entries, key, val) ==
    IF HasKey(entries, key)
    THEN [i \in 1..Len(entries) |->
            IF entries[i].key = key THEN [key |-> key, val |-> val] ELSE entries[i]]
    ELSE IF IsArrayIndex(key)
    THEN LET before == {i \in 1..Len(entries) :
                           /\ IsArrayIndex(entries[i].key)
                           /\ DigitsToNat(entries[i].key) < DigitsToNat(key)}
             n == Cardinality(before)
         IN  SubSeq(entries, 1, n) \o <<[key |-> key, val |-> val]>>
                \o SubSeq(entries, n + 1, Len(entries))
    ELSE Append(entries, [key |-> key, val |-> val])

ObjSet(o, key, val) == Obj(SetEntry(o.obj, key, val))

Quoted(s) == <<C("\"")>> \o s \o <<C("\"")>>

RECURSIVE Join(_, _)
Join(parts, sep) ==
    IF parts = <<>> THEN <<>>
    ELSE IF Len(parts) = 1 THEN parts[1]
    ELSE parts[1] \o sep \o Join(Tail(parts), sep)

RECURSIVE JSONStringify(_)
\* JSON.stringify(value) without an indent argument
JSONStringify(v) ==
    IF IsNull(v) THEN Str(<<"n", "u", "l", "l">>)
    ELSE IF IsBoolean(v)
    THEN (IF v.bool THEN Str(<<"t", "r", "u", "e">>) ELSE Str(<<"f", "a", "l", "s", "e">>))
    ELSE IF IsNumber(v) THEN NatToStr(v.num)
    ELSE IF IsString(v) THEN Quoted(v.str)
    ELSE IF IsArray(v)
    THEN <<C("[")>>
           \o Join([i \in 1..Len(v.arr) |->
                       IF IsUndefined(v.arr[i]) THEN Str(<<"n", "u", "l", "l">>)
                       ELSE JSONStringify(v.arr[i])], <<C(",")>>)
           \o <<C("]")>>
    ELSE LET shown == SelectSeq(v.obj, LAMBDA e : ~IsUndefined(e.val))
         IN  <<C("{")>>
               \o Join([i \in 1..Len(shown) |->
                           Quoted(shown[i].key) \o <<C(":")>>
                               \o JSONStringify(shown[i].val)], <<C(",")>>)
               \o <<C("}")>>

(* JSON.parse *)

Ch(t, p) == IF p <= Len(t) /\ IsLit(t[p]) THEN t[p].c ELSE ""

RECURSIVE SkipWs(_, _)
SkipWs(t, p) == IF Ch(t, p) = " " THEN SkipWs(t, p + 1) ELSE p

Fail == [ok |-> FALSE, val |-> Undefined, pos |-> 0]
Ok(v, p) == [ok |-> TRUE, val |-> v, pos |-> p]

RECURSIVE ScanString(_, _)
\* position of the closing quote, 0 if there is none
ScanString(t, p) ==
    IF p > Len(t) THEN 0
    ELSE IF t[p] = C("\"") THEN p
    ELSE ScanString(t, p + 1)

\* p is the position after the opening quote
ParseString(t, p) ==
    LET q == ScanString(t, p)
    IN  IF q = 0 THEN Fail ELSE Ok(StrV(SubSeq(t, p, q - 1)), q + 1)

RECURSIVE ScanDigits(_, _)
ScanDigits(t, p) ==
    IF p <= Len(t) /\ IsDigit(t[p]) THEN ScanDigits(t, p + 1) ELSE p

\* 0, or a digit from 1 to 9 followed by digits
ParseNumber(t, p) ==
    IF t[p] = C("0") THEN Ok(Num(0), p + 1)
    ELSE LET q == ScanDigits(t, p)
         IN  Ok(Num(DigitsToNat(SubSeq(t, p, q - 1))), q)

ParseWord(t, p, word, v) ==
    IF p + Len(word) - 1 <= Len(t) /\ SubSeq(t, p, p + Len(word) - 1) = Str(word)
    THEN Ok(v, p + Len(word)) ELSE Fail

RECURSIVE ParseValue(_, _, _)
RECURSIVE ParseMembers(_, _, _, _)
RECURSIVE ParseElements(_, _, _, _)

\* raw = TRUE keeps the members of an object as the text lists them;
\* raw = FALSE defines them as properties of a JavaScript object
ParseValue(t, p0, raw) ==
    LET p == SkipWs(t, p0)
        ch == Ch(t, p)
    IN  IF ch = "{"
        THEN LET q == SkipWs(t, p + 1)
             IN  IF Ch(t, q) = "}" THEN Ok(Obj(<<>>), q + 1)
                 ELSE ParseMembers(t, q, <<>>, raw)
        ELSE IF ch = "["
        THEN LET q == SkipWs(t, p + 1)
             IN  IF Ch(t, q) = "]" THEN Ok(Arr(<<>>), q + 1)
                 ELSE ParseElements(t, q, <<>>, raw)
        ELSE IF ch = "\"" THEN ParseString(t, p + 1)
        ELSE IF ch # "" /\ IsDigit(C(ch)) THEN ParseNumber(t, p)
        ELSE IF ch = "t" THEN ParseWord(t, p, <<"t", "r", "u", "e">>, Bool(TRUE))
        ELSE IF ch = "f" THEN ParseWord(t, p, <<"f", "a", "l", "s", "e">>, Bool(FALSE))
        ELSE IF ch = "n" THEN ParseWord(t, p, <<"n", "u", "l", "l">>, NULL)
        ELSE Fail

ParseMembers(t, p, entries, raw) ==
    IF Ch(t, p) # "\"" THEN Fail
    ELSE LET k == ParseString(t, p + 1)
         IN  IF ~k.ok THEN Fail
             ELSE LET c == SkipWs(t, k.pos)
                  IN  IF Ch(t, c) # ":" THEN Fail
                      ELSE LET v == ParseValue(t, c + 1, raw)
                           IN  IF ~v.ok THEN Fail
                               ELSE LET e == SkipWs(t, v.pos)
                                        added ==
                                          IF raw
                                          THEN Append(entries, [key |-> k.val.str, val |-> v.val])
                                          ELSE SetEntry(entries, k.val.str, v.val)
                                    IN  IF Ch(t, e) = ","
                                        THEN ParseMembers(t, SkipWs(t, e + 1), added, raw)
                                        ELSE IF Ch(t, e) = "}" THEN Ok(Obj(added), e + 1)
                                        ELSE Fail

ParseElements(t, p, items, raw) ==
    LET v == ParseValue(t, p, raw)
    IN  IF ~v.ok THEN Fail
        ELSE LET e == SkipWs(t, v.pos)
             IN  IF Ch(t, e) = ","
                 THEN ParseElements(t, SkipWs(t, e + 1), Append(items, v.val), raw)
                 ELSE IF Ch(t, e) = "]" THEN Ok(Arr(Append(items, v.val)), e + 1)
                 ELSE Fail

JSONParse(t) ==
    LET r == ParseValue(t, 1, FALSE)
    IN  IF r.ok /\ SkipWs(t, r.pos) = Len(t) + 1 THEN Returned(r.val)
        ELSE Threw("SyntaxError")

(* canonicalizer.ts *)

RECURSIVE canonicalizeValue(_)
RECURSIVE CanonEntries(_, _, _)

\* the for loop of canonicalizeObject over the sorted keys
CanonEntries(o, sortedKeys, result) ==
    IF sortedKeys = <<>> THEN result
    ELSE LET key == Head(sortedKeys)
             value == Get(o, key)
             canonicalized == canonicalizeValue(value)
         IN  CanonEntries(o, Tail(sortedKeys),
                IF ~IsUndefined(value) /\ ~IsUndefined(canonicalized)
                THEN ObjSet(result, key, canonicalized) ELSE result)

canonicalizeObject(o) == CanonEntries(o, SortStrings(ObjectKeys(o)), Obj(<<>>))

canonicalizeValue(value) ==
    IF IsUndefined(value) THEN Undefined
    ELSE IF IsNull(value) THEN NULL
    ELSE IF IsString(value) \/ IsNumber(value) \/ IsBoolean(value) THEN value
    ELSE IF IsArray(value)
    THEN Arr(SelectSeq([i \in 1..Len(value.arr) |-> canonicalizeValue(value.arr[i])],
                       LAMBDA item : ~IsUndefined(item)))
    ELSE canonicalizeObject(value)

canonicalize(o) ==
    IF IsNull(o) \/ IsUndefined(o) THEN Threw("Cannot canonicalize null or undefined")
    ELSE IF TypeOf(o) # "object" THEN Threw("Can only canonicalize objects")
    ELSE Returned(JSONStringify(canonicalizeValue(o)))

parseAndCanonicalize(jsonString) ==
    LET parsed == JSONParse(jsonString)
    IN  IF IsThrown(parsed) THEN parsed
        ELSE IF IsNull(parsed.value) \/ TypeOf(parsed.value) # "object"
        THEN Threw("Can only canonicalize objects")
        ELSE canonicalize(parsed.value)

\* try { return jsonString === parseAndCanonicalize(jsonString) } catch { return false }
isCanonical(jsonString) ==
    LET recanonicalized == parseAndCanonicalize(jsonString)
    IN  IF IsThrown(recanonicalized) THEN FALSE
        ELSE jsonString = recanonicalized.value

(* hasher.ts *)

FieldModel == Str(<<"m", "o", "d", "e", "l">>)
FieldPromptHash == Str(<<"p", "r", "o", "m", "p", "t", "_", "h", "a", "s", "h">>)
FieldOutputHash == Str(<<"o", "u", "t", "p", "u", "t", "_", "h", "a", "s", "h">>)
FieldParameters == Str(<<"p", "a", "r", "a", "m", "e", "t", "e", "r", "s">>)
FieldContext == Str(<<"c", "o", "n", "t", "e", "x", "t">>)
FieldTimestamp == Str(<<"t", "i", "m", "e", "s", "t", "a", "m", "p">>)
FieldNonce == Str(<<"n", "o", "n", "c", "e">>)

\* normalizeHash that removes the prefix before it lower-cases
hasherNormalizeHashStripFirst(hash) == <<C("0"), C("x")>> \o toLowerCase(Strip0x(hash))

\* hasher.ts has its own copy of normalizeHash
hasherNormalizeHash(hash) == <<C("0"), C("x")>> \o Strip0x(toLowerCase(hash))

\* a mapping that is there and has at least one own key
NonEmptyMapping(v) == ~IsUndefined(v) /\ ~IsNull(v) /\ Len(ObjectKeys(v)) > 0

prepareForHashing(rec) ==
    LET base == Obj(<<[key |-> FieldModel, val |-> Get(rec, FieldModel)],
                      [key |-> FieldPromptHash,
                       val |-> StrV(hasherNormalizeHash(Get(rec, FieldPromptHash).str))],
                      [key |-> FieldOutputHash,
                       val |-> StrV(hasherNormalizeHash(Get(rec, FieldOutputHash).str))]>>)
        withParameters ==
            IF NonEmptyMapping(Get(rec, FieldParameters))
            THEN ObjSet(base, FieldParameters, Get(rec, FieldParameters)) ELSE base
        withContext ==
            IF NonEmptyMapping(Get(rec, FieldContext))
            THEN ObjSet(withParameters, FieldContext, Get(rec, FieldContext))
            ELSE withParameters
        withTimestamp ==
            IF ~IsUndefined(Get(rec, FieldTimestamp))
            THEN ObjSet(withContext, FieldTimestamp, Get(rec, FieldTimestamp))
            ELSE withContext
    IN  IF ~IsUndefined(Get(rec, FieldNonce))
        THEN ObjSet(withTimestamp, FieldNonce, Get(rec, FieldNonce))
        ELSE withTimestamp

hashInference(rec) ==
    LET prepared == prepareForHashing(rec)
        canonical == canonicalize(prepared)
    IN  keccak256Utf8(canonical.value)

\* verifyInferenceHash that compares the two strings as they are
verifyInferenceHashExact(rec, expectedHash) ==
    hashInference(rec) = expectedHash

verifyInferenceHash(rec, expectedHash) ==
    toLowerCase(hashInference(rec)) = toLowerCase(hasherNormalizeHash(expectedHash))

hashData(data) == keccak256Utf8(data)

(* The CLI's own copies of canonicalize and hashInference *)

RECURSIVE cliCanonicalize(_)
RECURSIVE CliEntries(_, _, _)
\* the loop of the CLI's canonicalize over the sorted keys
CliEntries(o, sortedKeys, result) ==
    IF sortedKeys = <<>> THEN result
    ELSE LET key == Head(sortedKeys)
             value == Get(o, key)
         IN  CliEntries(o, Tail(sortedKeys),
                IF IsUndefined(value) THEN result
                ELSE IF IsObject(value)
                THEN ObjSet(result, key, JSONParse(cliCanonicalize(value)).value)
                ELSE ObjSet(result, key, value))

cliCanonicalize(o) ==
    JSONStringify(CliEntries(o, SortStrings(ObjectKeys(o)), Obj(<<>>)))

cliHashInference(rec) ==
    LET base == Obj(<<[key |-> FieldModel, val |-> Get(rec, FieldModel)],
                      [key |-> FieldPromptHash,
                       val |-> StrV(toLowerCase(Get(rec, FieldPromptHash).str))],
                      [key |-> FieldOutputHash,
                       val |-> StrV(toLowerCase(Get(rec, FieldOutputHash).str))]>>)
        withParameters ==
            IF NonEmptyMapping(Get(rec, FieldParameters))
            THEN ObjSet(base, FieldParameters, Get(rec, FieldParameters)) ELSE base
        withContext ==
            IF NonEmptyMapping(Get(rec, FieldContext))
            THEN ObjSet(withParameters, FieldContext, Get(rec, FieldContext))
            ELSE withParameters
        normalized ==
            IF ~IsUndefined(Get(rec, FieldTimestamp))
            THEN ObjSet(withContext, FieldTimestamp, Get(rec, FieldTimestamp))
            ELSE withContext
    IN  keccak256Utf8(cliCanonicalize(normalized))

\* combineHashes that concatenates its arguments in the order given
combineHashesUnsorted(left, right) ==
    keccak256(toLowerCase(left) \o Strip0x(toLowerCase(right)))

combineHashes(left, right) ==
    LET sortedPair == SortStrings(<<toLowerCase(left), toLowerCase(right)>>)
        second == sortedPair[2]
        \* second.replace('0x', ''): the first 0x anywhere in the string
        at == {i \in 1..(Len(second) - 1) : second[i] = C("0") /\ second[i + 1] = C("x")}
        first0x == IF at = {} THEN 0 ELSE CHOOSE i \in at : \A j \in at : i <= j
        replaced == IF first0x = 0 THEN second
                    ELSE SubSeq(second, 1, first0x - 1) \o Slice(second, first0x + 1)
    IN  keccak256(sortedPair[1] \o replaced)

(* storage.ts: the three maps of the storage singleton.  A Map keeps its   *)
(* entries in insertion order and set() on a present key keeps the place.  *)

\* the first of the positions at which an iteration over a map matches, or 0
FirstIndex(hits) ==
    IF hits = {} THEN 0 ELSE CHOOSE i \in hits : \A j \in hits : i <= j

\* Map.set(key, value), at being the position of the key (0: a new key)
MapSet(seq, at, value) ==
    IF at = 0 THEN Append(seq, value) ELSE [seq EXCEPT ![at] = value]

storeInference(infs, inference) ==
    MapSet(infs,
           FirstIndex({i \in 1..Len(infs) :
                          infs[i].inference_hash = inference.inference_hash}),
           inference)

\* getUnbatchedInferences that returns every stored inference
getUnbatchedInferencesAll(infs, bs) == infs

getUnbatchedInferences(infs, bs) ==
    LET batchedHashes ==
            UNION {{toLowerCase(bs[i].leaves[j]) : j \in 1..Len(bs[i].leaves)} :
                      i \in 1..Len(bs)}
    IN  SelectSeq(infs, LAMBDA inf : toLowerCase(inf.inference_hash) \notin batchedHashes)

storeBatch(bs, b) ==
    MapSet(bs, FirstIndex({i \in 1..Len(bs) : bs[i].batch_id = b.batch_id}), b)

getBatch(bs, batchId) ==
    LET at == FirstIndex({i \in 1..Len(bs) : bs[i].batch_id = batchId})
    IN  IF at = 0 THEN Undefined ELSE bs[at]

getBatchByRoot(bs, root) ==
    LET normalizedRoot == toLowerCase(root)
        at == FirstIndex({i \in 1..Len(bs) : toLowerCase(bs[i].root) = normalizedRoot})
    IN  IF at = 0 THEN Undefined ELSE bs[at]

findBatchContainingHash(bs, inferenceHash) ==
    LET normalized == toLowerCase(inferenceHash)
        at == FirstIndex({i \in 1..Len(bs) :
                            \E j \in 1..Len(bs[i].leaves) :
                               toLowerCase(bs[i].leaves[j]) = normalized})
    IN  IF at = 0 THEN Undefined ELSE bs[at]

getUnanchoredBatches(bs, as) ==
    LET anchoredRoots == {toLowerCase(as[i].merkle_root) : i \in 1..Len(as)}
    IN  SelectSeq(bs, LAMBDA b : toLowerCase(b.root) \notin anchoredRoots)

storeAnchor(as, anchor) ==
    MapSet(as, FirstIndex({i \in 1..Len(as) : as[i].tx_hash = anchor.tx_hash}), anchor)

getAnchorByRoot(as, root) ==
    LET normalizedRoot == toLowerCase(root)
        at == FirstIndex({i \in 1..Len(as) :
                            toLowerCase(as[i].merkle_root) = normalizedRoot})
    IN  IF at = 0 THEN Undefined ELSE as[at]

(* The registry contract.  A bytes32 root is the value its hex spelling   *)
(* denotes, so the mapping is keyed by the lower-case spelling.            *)

IsZeroRoot(root) ==
    \A i \in 1..Len(Strip0x(toLowerCase(root))) : Strip0x(toLowerCase(root))[i] = C("0")

\* anchoredAt[root]
anchoredAtOf(registry, root) ==
    LET entries == {e \in registry : e.root = toLowerCase(root)}
    IN  IF entries = {} THEN 0 ELSE (CHOOSE e \in entries : TRUE).at

\* anchorRoot without the check of the existing timestamp
anchorRootOverwrites(registry, root, blockTimestamp) ==
    IF \A i \in 1..Len(Strip0x(toLowerCase(root))) : Strip0x(toLowerCase(root))[i] = C("0")
    THEN Threw("InvalidRoot")
    ELSE Returned({e \in registry : e.root # toLowerCase(root)}
                     \cup {[root |-> toLowerCase(root), at |-> blockTimestamp]})

\* anchorRoot that emits the event without writing the mapping
anchorRootForgets(registry, root, blockTimestamp) ==
    IF \A i \in 1..Len(Strip0x(toLowerCase(root))) : Strip0x(toLowerCase(root))[i] = C("0")
    THEN Threw("InvalidRoot")
    ELSE IF \E e \in registry : e.root = toLowerCase(root) /\ e.at # 0
    THEN Threw("RootAlreadyAnchored")
    ELSE Returned(registry)

\* anchorRoot(root) in a block with the given timestamp: the mapping after
\* the call, or the error it reverted with
anchorRoot(registry, root, blockTimestamp) ==
    IF IsZeroRoot(root) THEN Threw("InvalidRoot")
    ELSE IF anchoredAtOf(registry, root) # 0 THEN Threw("RootAlreadyAnchored")
    ELSE Returned(registry \cup {[root |-> toLowerCase(root), at |-> blockTimestamp]})

isAnchored(registry, root) == anchoredAtOf(registry, root) # 0

getAnchorTimestamp(registry, root) == anchoredAtOf(registry, root)

(* config/chains.json and the environment of the server *)

ChainsConfig ==
    [defaultChain |-> "chainA",
     chains |-> [chainA |-> [chainId |-> 1, name |-> "Chain A", contractAddress |-> "0xA"],
                 chainB |-> [chainId |-> 2, name |-> "Chain B", contractAddress |-> "0xB"],
                 chainC |-> [chainId |-> 3, name |-> "Chain C", contractAddress |-> ""]]]

\* the chains a registry is deployed on
Chains == {"chainA", "chainB"}

(* verifier.ts *)

Msg(text) == [msg |-> text]
Name(text) == [name |-> text]

\* JavaScript truthiness of an optional string
Truthy(v) == ~IsUndefined(v) /\ v.str # <<>>

NoCall == [none |-> "call"]
NoResult == [none |-> "result"]
IsResult(r) == "verified" \in DOMAIN r

NoFields ==
    [verified |-> FALSE, inference_hash |-> <<>>, merkle_root |-> Undefined,
     anchored_at |-> Undefined, block_number |-> Undefined, chain_id |-> Undefined,
     chain_name |-> Undefined, tx_hash |-> Undefined, proof |-> Undefined,
     error |-> Undefined]

\* verifyOnChain that takes every answer of the registry for an anchoring
verifyOnChainAnyTimestamp(onChainAnchoredAt) ==
    [verified |-> TRUE, anchoredAt |-> onChainAnchoredAt]

\* verifyOnChain, given what the registry's anchoredAt(root) returned
verifyOnChain(onChainAnchoredAt) ==
    IF onChainAnchoredAt = 0
    THEN [verified |-> FALSE, error |-> "Root not found on-chain"]
    ELSE [verified |-> TRUE, anchoredAt |-> onChainAnchoredAt]

\* the result verifyInference returns on full success
Verified(inferenceHash, b, anchor, prf) ==
    [NoFields EXCEPT !.verified = TRUE,
                     !.inference_hash = inferenceHash,
                     !.merkle_root = StrV(b.root),
                     !.anchored_at = Num(anchor.anchored_at),
                     !.block_number = Num(anchor.block_number),
                     !.chain_id = Num(anchor.chain_id),
                     !.chain_name = Name(anchor.chain_name),
                     !.tx_hash = StrV(anchor.tx_hash),
                     !.proof = prf]

\* what verifyInference has done when it returns or reaches its await: the
\* collaborators it queried, in order, and the result (or the waiting call)
Ran(queried, out) == [queried |-> queried, out |-> out]

\* VerifyStored that goes on to the anchor store when no batch holds the
\* hash and reports the missing anchor
VerifyStoredNoStop(inferenceHash, options, bs, as) ==
    LET b == findBatchContainingHash(bs, inferenceHash)
        prf == generateProof(b, inferenceHash)
        anchor == getAnchorByRoot(as, b.root)
        bothStores == <<"findBatchContainingHash", "getAnchorByRoot">>
    IN  IF IsUndefined(b) \/ IsUndefined(anchor)
        THEN Ran(bothStores,
                 [NoFields EXCEPT !.inference_hash = inferenceHash,
                                  !.error = Msg("Batch not anchored on-chain")])
        ELSE IF options.endpoint # "none"
        THEN Ran(bothStores,
                 [waiting |-> TRUE, inference_hash |-> inferenceHash, batch |-> b,
                  proof |-> prf, anchor |-> anchor, endpoint |-> options.endpoint])
        ELSE Ran(bothStores, Verified(inferenceHash, b, anchor, prf))

\* Steps 2 to 4 of verifyInference and the decision to make the live read:
\* a result, or the call that waits for verifyOnChain
VerifyStored(inferenceHash, options, bs, as) ==
    LET b == findBatchContainingHash(bs, inferenceHash)
        prf == generateProof(b, inferenceHash)
        ok == verifyProof(prf)
        anchor == getAnchorByRoot(as, b.root)
        batchStore == <<"findBatchContainingHash">>
        bothStores == <<"findBatchContainingHash", "getAnchorByRoot">>
    IN  IF IsUndefined(b)
        THEN Ran(batchStore,
                 [NoFields EXCEPT !.inference_hash = inferenceHash,
                                  !.error = Msg("Inference not found in any batch")])
        ELSE IF IsNull(prf)
        THEN Ran(batchStore,
                 [NoFields EXCEPT !.inference_hash = inferenceHash,
                                  !.merkle_root = StrV(b.root),
                                  !.error = Msg("Failed to generate Merkle proof")])
        ELSE IF IsThrown(ok) THEN Ran(batchStore, ok)
        ELSE IF ~ok.value
        THEN Ran(batchStore,
                 [NoFields EXCEPT !.inference_hash = inferenceHash,
                                  !.merkle_root = StrV(b.root),
                                  !.proof = prf,
                                  !.error = Msg("Merkle proof verification failed")])
        ELSE IF IsUndefined(anchor)
        THEN Ran(bothStores,
                 [NoFields EXCEPT !.inference_hash = inferenceHash,
                                  !.merkle_root = StrV(b.root),
                                  !.proof = prf,
                                  !.error = Msg("Batch not anchored on-chain")])
        ELSE IF options.endpoint # "none"
        THEN Ran(bothStores,
                 [waiting |-> TRUE, inference_hash |-> inferenceHash, batch |-> b,
                  proof |-> prf, anchor |-> anchor, endpoint |-> options.endpoint])
        ELSE Ran(bothStores, Verified(inferenceHash, b, anchor, prf))

\* verifyInference up to its first await
verifyInferenceStart(input, options, bs, as) ==
    IF ~IsUndefined(input.record)
    THEN LET inferenceHash == hashInference(input.record)
         IN  IF Truthy(input.hash) /\ ~verifyInferenceHash(input.record, input.hash.str)
             THEN Ran(<<>>,
                      [NoFields EXCEPT
                          !.inference_hash = inferenceHash,
                          !.error = Msg("Provided hash does not match computed hash from record")])
             ELSE VerifyStored(inferenceHash, options, bs, as)
    ELSE IF Truthy(input.hash)
    THEN VerifyStored(input.hash.str, options, bs, as)
    ELSE Ran(<<>>, [NoFields EXCEPT !.error = Msg("Must provide either record or hash")])

\* verifyInferenceFinish that reports every failure of the live read, an
\* absent root or an error, with the one message of the catch block
verifyInferenceFinishOneCause(call, read) ==
    IF ~IsThrown(read) /\ read.value # 0
    THEN Verified(call.inference_hash, call.batch, call.anchor, call.proof)
    ELSE [NoFields EXCEPT !.inference_hash = call.inference_hash,
                          !.merkle_root = StrV(call.batch.root),
                          !.proof = call.proof,
                          !.tx_hash = StrV(call.anchor.tx_hash),
                          !.error = Msg("On-chain check failed: Unknown error")]

\* verifyInferenceFinish without the try/catch around verifyOnChain
verifyInferenceFinishNoCatch(call, read) ==
    IF IsThrown(read) THEN read
    ELSE IF read.value = 0
    THEN [NoFields EXCEPT !.inference_hash = call.inference_hash,
                          !.merkle_root = StrV(call.batch.root),
                          !.proof = call.proof,
                          !.tx_hash = StrV(call.anchor.tx_hash),
                          !.error = Msg("On-chain verification failed: Root not found on-chain")]
    ELSE Verified(call.inference_hash, call.batch, call.anchor, call.proof)

\* verifyInference from the return of verifyOnChain; read is the anchoredAt
\* the registry returned, or the error the read threw
verifyInferenceFinish(call, read) ==
    IF IsThrown(read)
    THEN [NoFields EXCEPT !.inference_hash = call.inference_hash,
                          !.merkle_root = StrV(call.batch.root),
                          !.proof = call.proof,
                          !.tx_hash = StrV(call.anchor.tx_hash),
                          !.error = Msg("On-chain check failed: " \o read.error)]
    ELSE LET onChainResult == verifyOnChain(read.value)
         IN  IF ~onChainResult.verified
             THEN [NoFields EXCEPT
                      !.inference_hash = call.inference_hash,
                      !.merkle_root = StrV(call.batch.root),
                      !.proof = call.proof,
                      !.tx_hash = StrV(call.anchor.tx_hash),
                      !.error = Msg("On-chain verification failed: " \o onChainResult.error)]
             ELSE Verified(call.inference_hash, call.batch, call.anchor, call.proof)

\* an entry of a list of explainVerification: a fixed text, or a template
\* literal with the text its ${...} formats to
Line(text) == [line |-> text]
Template(text, arg) == [line |-> text, arg |-> arg]

\* what `${value}` puts into a template literal
TemplateString(v) ==
    IF IsUndefined(v) THEN Str(<<"u", "n", "d", "e", "f", "i", "n", "e", "d">>)
    ELSE IF IsNumber(v) THEN NatToStr(v.num)
    ELSE v.name

WhatIsNotProven ==
    <<Line("The correctness or accuracy of the AI output"),
      Line("The truthfulness of any claims in the output"),
      Line("That the AI model actually produced this output"),
      Line("That the prompt was not manipulated before hashing"),
      Line("The identity of the party who recorded the inference"),
      Line("That all inferences were recorded (completeness)"),
      Line("That the model parameters were actually used")>>

TrustAssumptions ==
    <<Line("The recording party hashed the data correctly"),
      Line("The local storage has not been tampered with"),
      Line("The blockchain has not experienced a reorg past the anchor block"),
      Line("The smart contract code is correct and uncompromised"),
      Line("The RPC endpoint returns accurate blockchain state")>>

\* the claims explainVerification lists for a verified result
ProvenClaims(result) ==
    <<Line("The inference metadata existed at the time of anchoring"),
      Line("The inference has not been modified since it was batched"),
      Template("The batch was anchored before block ", TemplateString(result.block_number)),
      Line("The Merkle proof is mathematically valid")>>
        \o IF ~IsUndefined(result.chain_name) /\ result.chain_name.name # ""
           THEN <<Template("The root is stored on ", TemplateString(result.chain_name))>>
           ELSE <<>>

\* explainVerification that lists the proven claims whatever the verdict
explainVerificationAnyVerdict(result) ==
    [what_is_proven |-> ProvenClaims(result),
     what_is_not_proven |-> WhatIsNotProven,
     trust_assumptions |-> TrustAssumptions,
     verification_details |-> Undefined]

explainVerification(result) ==
    [what_is_proven |-> IF result.verified THEN ProvenClaims(result)
                        ELSE <<Line("Unable to verify inference")>>,
     what_is_not_proven |-> WhatIsNotProven,
     trust_assumptions |-> TrustAssumptions,
     verification_details |->
        IF result.verified
        THEN [inference_hash |-> result.inference_hash,
              merkle_root |-> result.merkle_root,
              block_number |-> result.block_number,
              chain_name |-> result.chain_name]
        ELSE Undefined]

\* api/verify.ts: the VerifyResponse POST /api/verify builds from a result
VerifyResponse(result) ==
    [verified |-> result.verified,
     anchored_at |-> result.anchored_at,
     block_number |-> result.block_number,
     chain_name |-> result.chain_name,
     tx_hash |-> result.tx_hash,
     error |-> result.error]

(* Inputs of the Merkle model *)

Leaf1 == Str(<<"0", "x", "a", "1">>)
Leaf2 == Str(<<"0", "x", "b", "2">>)
Leaf3 == Str(<<"0", "x", "3", "c">>)
\* a leaf that is itself the digest of a pair
Leaf4 == hashPair(Leaf1, Leaf2)
\* a hash that is in no batch
Absent == Str(<<"0", "x", "d", "e">>)

BaseLeaves == {Leaf1, Leaf2, Leaf3, Leaf4}

\* other spellings of the same hash
Spell(h, kind) ==
    CASE kind = "lower" -> h
      [] kind = "upper" -> toUpperCase(h)
      [] kind = "mixed" -> <<C("0"), C("x")>> \o toUpperCase(Slice(h, 2))
      [] kind = "bare" -> Slice(h, 2)

SpellKinds == {"lower", "upper", "mixed", "bare"}

HashLists == UNION {[1..n -> BaseLeaves] : n \in 1..MaxLeaves}

NoBatch == [none |-> "batch"]
NoProof == [none |-> "proof"]
IsBatch(b) == "root" \in DOMAIN b
IsProof(p) == "leaf" \in DOMAIN p

(* Driver of the Merkle functions: build, rearrange the input, build again, *)
(* generate a proof and verify it.                                          *)

\* no Merkle call has been made
MerkleIdle ==
    /\ batch = NoBatch
    /\ prevHashes = <<>>
    /\ prevBatch = NoBatch
    /\ target = <<>>
    /\ proof = NoProof
    /\ valid = Returned(FALSE)
    /\ computed = <<>>
    /\ prevComputed = <<>>
    /\ tampered = NoProof
    /\ changedFrom = <<>>
    /\ changedTo = <<>>

\* no canonicalizer call has been made
CanonIdle ==
    /\ wrapped = FALSE
    /\ cout = Threw("not called")
    /\ ctext = <<>>
    /\ textKind = "none"
    /\ isCan = FALSE
    /\ recanon = Threw("not called")

\* no hasher call has been made
HasherIdle ==
    /\ record = Obj(<<>>)
    /\ recHash = <<>>
    /\ cliHash = <<>>
    /\ prevRecord = Obj(<<>>)
    /\ prevRecHash = <<>>
    /\ lastEdit = "none"
    /\ operands = <<>>
    /\ combos = <<>>
    /\ claimed = <<>>
    /\ matches = FALSE

\* the server has handled no request
SysIdle ==
    /\ inferences = <<>>
    /\ batches = <<>>
    /\ anchors = <<>>
    /\ anchoredAt = [chain \in Chains |-> {}]
    /\ txs = <<>>
    /\ txCount = 0
    /\ clock = 1
    /\ response = [status |-> 0, code |-> "none"]
    /\ vcall = NoCall
    /\ vinput = NoCall
    /\ vread = Returned(0)
    /\ vresult = NoResult
    /\ vqueried = <<>>
    /\ inflight = <<>>

InitMerkle ==
    /\ pc = "input"
    /\ hashes \in HashLists
    /\ MerkleIdle
    /\ CanonIdle
    /\ cinput = Undefined
    /\ HasherIdle
    /\ SysIdle

MBuild ==
    /\ pc = "input"
    /\ batch' = buildMerkleBatch(hashes, IF prevBatch = NoBatch THEN 1 ELSE 2, 0)
    /\ pc' = "built"
    /\ UNCHANGED <<hashes, prevHashes, prevBatch, target, proof, valid, computed, prevComputed,
                   tamperVars, nonMerkleVars>>

\* hand the next call another arrangement of the same hashes
Rearranged(newHashes) ==
    /\ pc = "built"
    /\ prevBatch = NoBatch
    /\ prevHashes' = hashes
    /\ prevBatch' = batch
    /\ hashes' = newHashes
    /\ batch' = NoBatch
    /\ pc' = "input"
    /\ UNCHANGED <<target, proof, valid, computed, prevComputed,
                   tamperVars, nonMerkleVars>>

MSwap ==
    \E i, j \in 1..Len(hashes) :
        /\ i < j
        /\ Rearranged([hashes EXCEPT ![i] = hashes[j], ![j] = hashes[i]])

MRespell ==
    \E i \in 1..Len(hashes), kind \in SpellKinds \ {"lower"} :
        Rearranged([hashes EXCEPT ![i] = Spell(hashes[i], kind)])

MRepeat ==
    \E i \in 1..Len(hashes) :
        /\ Len(hashes) < MaxLeaves
        /\ Rearranged(Append(hashes, hashes[i]))

MGenerateProof ==
    /\ pc = "built"
    /\ prevBatch = NoBatch
    /\ \E t \in {Spell(hashes[i], kind) : i \in 1..Len(hashes), kind \in SpellKinds}
                  \cup {Absent} :
          /\ target' = t
          /\ proof' = generateProof(batch, t)
    /\ pc' = "proved"
    /\ UNCHANGED <<hashes, batch, prevHashes, prevBatch, valid, computed, prevComputed,
                   tamperVars, nonMerkleVars>>

MVerifyProof ==
    /\ pc = "proved"
    /\ IsProof(proof)
    /\ valid' = verifyProof(proof)
    /\ pc' = "verified"
    /\ UNCHANGED <<hashes, batch, prevHashes, prevBatch, target, proof, computed, prevComputed,
                   tamperVars, nonMerkleVars>>

NextMerkle ==
    \/ MBuild
    \/ MSwap
    \/ MRespell
    \/ MRepeat
    \/ MGenerateProof
    \/ MVerifyProof

SpecMerkle == InitMerkle /\ [][NextMerkle]_vars

(* Driver of the root computation: any list of hashes, the empty one      *)
(* included, and then a second list                                         *)

\* lists handed to buildMerkleBatch and computeRoot first
RootLists ==
    UNION {[1..n -> BaseLeaves \cup {Spell(Leaf2, "upper"), Spell(Leaf3, "bare")}] :
              n \in 0..MaxTamperLeaves}

\* lists handed to them second
OtherLists == UNION {[1..n -> BaseLeaves] : n \in 0..2}

InitRoots ==
    /\ pc = "input"
    /\ hashes \in RootLists
    /\ MerkleIdle
    /\ CanonIdle
    /\ cinput = Undefined
    /\ HasherIdle
    /\ SysIdle

\* buildMerkleBatch(hashes) and computeRoot(hashes) are called
RBuild ==
    /\ pc = "input"
    /\ batch' = buildMerkleBatch(hashes, IF prevBatch = NoBatch THEN 1 ELSE 2, 0)
    /\ computed' = computeRoot(hashes)
    /\ pc' = "built"
    /\ UNCHANGED <<hashes, prevHashes, prevBatch, prevComputed, target, proof, valid,
                   tamperVars, nonMerkleVars>>

\* the next calls are made with another list
ROtherList ==
    /\ pc = "built"
    /\ prevBatch = NoBatch
    /\ \E other \in OtherLists :
          /\ other # hashes
          /\ hashes' = other
    /\ prevHashes' = hashes
    /\ prevBatch' = batch
    /\ prevComputed' = computed
    /\ batch' = NoBatch
    /\ computed' = <<>>
    /\ pc' = "input"
    /\ UNCHANGED <<target, proof, valid, tamperVars, nonMerkleVars>>

NextRoots ==
    \/ RBuild
    \/ ROtherList

SpecRoots == InitRoots /\ [][NextRoots]_vars

(* Driver of the tampering model: build, prove, change one byte of the     *)
(* proof, verify the changed proof.                                        *)

InitTamper ==
    /\ pc = "input"
    /\ hashes \in UNION {[1..n -> BaseLeaves] : n \in 1..MaxTamperLeaves}
    /\ MerkleIdle
    /\ CanonIdle
    /\ cinput = Undefined
    /\ HasherIdle
    /\ SysIdle

TGenerateProof ==
    /\ pc = "built"
    /\ \E i \in 1..Len(hashes) :
          /\ target' = hashes[i]
          /\ proof' = generateProof(batch, hashes[i])
    /\ pc' = "proved"
    /\ UNCHANGED <<hashes, batch, prevHashes, prevBatch, valid, computed, prevComputed,
                   tamperVars, nonMerkleVars>>

\* the bytes one byte of a string can be changed to: the other letter case,
\* another hex digit, a byte that is no hex digit; for the digits of a
\* digest: one of them in upper case, one of them altered
OtherBytes(e) ==
    IF IsLit(e)
    THEN {C(UpperOf(e.c)), C(LowerOf(e.c)), C("f"), C("g")} \ {e}
    ELSE {[e EXCEPT !.v = 1], [e EXCEPT !.v = 2]}

OneByteChanges(str) ==
    {[str EXCEPT ![i] = e] : <<i, e>> \in
        UNION {{<<i, e>> : e \in OtherBytes(str[i])} : i \in 1..Len(str)}}

Tampered(newProof, from, to) ==
    /\ tampered' = newProof
    /\ changedFrom' = from
    /\ changedTo' = to
    /\ pc' = "tampered"
    /\ UNCHANGED <<merkleVars, nonMerkleVars>>

TTamperLeaf ==
    /\ pc = "proved"
    /\ \E str \in OneByteChanges(proof.leaf) :
          Tampered([proof EXCEPT !.leaf = str], proof.leaf, str)

TTamperSibling ==
    /\ pc = "proved"
    /\ \E n \in 1..Len(proof.proof) :
          \E str \in OneByteChanges(proof.proof[n]) :
              Tampered([proof EXCEPT !.proof[n] = str], proof.proof[n], str)

TTamperRoot ==
    /\ pc = "proved"
    /\ \E str \in OneByteChanges(proof.root) :
          Tampered([proof EXCEPT !.root = str], proof.root, str)

TVerify ==
    /\ pc = "tampered"
    /\ valid' = verifyProof(tampered)
    /\ pc' = "tverified"
    /\ UNCHANGED <<hashes, batch, prevHashes, prevBatch, target, proof, computed, prevComputed,
                   tamperVars, nonMerkleVars>>

NextTamper ==
    \/ MBuild
    \/ TGenerateProof
    \/ TTamperLeaf
    \/ TTamperSibling
    \/ TTamperRoot
    \/ TVerify

SpecTamper == InitTamper /\ [][NextTamper]_vars

(* Driver of proofs that generateProof did not make: build, present any   *)
(* proof for the batch's root, verify it.                                   *)

\* every node of a tree, leaves and root included
Nodes(tree) == UNION {{tree[L][i] : i \in 1..Len(tree[L])} : L \in 1..Len(tree)}

\* proofs for the root of a batch with any leaf, any path of up to two
\* entries and any leaf_index
PresentedProofs(b) ==
    {[leaf |-> leaf, proof |-> path, root |-> b.root, leaf_index |-> index] :
        leaf \in Nodes(b.tree) \cup {Absent},
        path \in UNION {[1..n -> Nodes(b.tree)] : n \in 0..2},
        index \in {0, 1}}

FPresent ==
    /\ pc = "built"
    /\ \E p \in PresentedProofs(batch) : Tampered(p, <<>>, <<>>)

NextPresented ==
    \/ MBuild
    \/ FPresent
    \/ TVerify

SpecPresented == InitTamper /\ [][NextPresented]_vars

(* Driver of the canonicalizer: make a value, canonicalize it, take a      *)
(* text, ask isCanonical.                                                  *)

KeyA == Str(<<"a">>)
KeyB == Str(<<"b">>)
Key9 == Str(<<"9">>)
Key10 == Str(<<"1", "0">>)
Keys == {KeyA, KeyB, Key9, Key10}

PropValues == {Undefined, Num(1), NULL}

\* {b: 1, a: undefined, "10": null}
ObjBA == Obj(<<[key |-> Key10, val |-> NULL],
               [key |-> KeyB, val |-> Num(1)],
               [key |-> KeyA, val |-> Undefined]>>)

TopLevelValues ==
    {Obj(<<>>), Arr(<<>>), NULL, Undefined, StrV(Str(<<"s">>)), Num(1), Bool(TRUE)}

InitCanon ==
    /\ pc = "cbuild"
    /\ cinput \in TopLevelValues
    /\ CanonIdle
    /\ MerkleIdle
    /\ hashes = <<>>
    /\ HasherIdle
    /\ SysIdle

\* obj[key] = v for a new key
CSetProp ==
    /\ pc = "cbuild"
    /\ IsObject(cinput)
    /\ ~wrapped
    /\ Len(cinput.obj) < MaxProps
    /\ \E key \in Keys, v \in PropValues :
          /\ ~HasKey(cinput.obj, key)
          /\ cinput' = ObjSet(cinput, key, v)
    /\ UNCHANGED <<pc, wrapped, cout, ctext, textKind, isCan, recanon, nonCanonVars>>

\* arr.push(v)
CPush ==
    /\ pc = "cbuild"
    /\ IsArray(cinput)
    /\ ~wrapped
    /\ Len(cinput.arr) < MaxProps
    /\ \E v \in PropValues \cup {ObjBA} :
          cinput' = Arr(Append(cinput.arr, v))
    /\ UNCHANGED <<pc, wrapped, cout, ctext, textKind, isCan, recanon, nonCanonVars>>

\* { b: x, a: "s" }
CWrapInObject ==
    /\ pc = "cbuild"
    /\ IsObject(cinput)
    /\ ~wrapped
    /\ cinput' = ObjSet(ObjSet(Obj(<<>>), KeyB, cinput), KeyA, StrV(Str(<<"s">>)))
    /\ wrapped' = TRUE
    /\ UNCHANGED <<pc, cout, ctext, textKind, isCan, recanon, nonCanonVars>>

\* { a: [undefined, x, true] }
CWrapInArray ==
    /\ pc = "cbuild"
    /\ IsObject(cinput)
    /\ ~wrapped
    /\ cinput' = ObjSet(Obj(<<>>), KeyA, Arr(<<Undefined, cinput, Bool(TRUE)>>))
    /\ wrapped' = TRUE
    /\ UNCHANGED <<pc, cout, ctext, textKind, isCan, recanon, nonCanonVars>>

CCanonicalize ==
    /\ pc = "cbuild"
    /\ cout' = canonicalize(cinput)
    /\ pc' = "ccanon"
    /\ UNCHANGED <<cinput, wrapped, ctext, textKind, isCan, recanon, nonCanonVars>>

\* the text canonicalize returned
CTextCanonical ==
    /\ pc = "ccanon"
    /\ ~IsThrown(cout)
    /\ ctext' = cout.value
    /\ textKind' = "canonical"
    /\ pc' = "ctext"
    /\ UNCHANGED <<cinput, wrapped, cout, isCan, recanon, nonCanonVars>>

\* JSON.stringify of the value as it was made
CTextStringify ==
    /\ pc = "ccanon"
    /\ TypeOf(cinput) # "undefined"
    /\ ctext' = JSONStringify(cinput)
    /\ textKind' = "stringify"
    /\ pc' = "ctext"
    /\ UNCHANGED <<cinput, wrapped, cout, isCan, recanon, nonCanonVars>>

\* a space inserted somewhere in the canonical text
CInsertSpace ==
    /\ pc = "ctext"
    /\ textKind = "canonical"
    /\ ~wrapped
    /\ \E i \in 0..Len(ctext) :
          ctext' = SubSeq(ctext, 1, i) \o <<C(" ")>> \o SubSeq(ctext, i + 1, Len(ctext))
    /\ textKind' = "spaced"
    /\ UNCHANGED <<pc, cinput, wrapped, cout, isCan, recanon, nonCanonVars>>

\* one character of the canonical text left out
CDropChar ==
    /\ pc = "ctext"
    /\ textKind = "canonical"
    /\ ~wrapped
    /\ \E i \in 1..Len(ctext) :
          ctext' = SubSeq(ctext, 1, i - 1) \o SubSeq(ctext, i + 1, Len(ctext))
    /\ textKind' = "cut"
    /\ UNCHANGED <<pc, cinput, wrapped, cout, isCan, recanon, nonCanonVars>>

CIsCanonical ==
    /\ pc = "ctext"
    /\ isCan' = isCanonical(ctext)
    /\ recanon' = parseAndCanonicalize(ctext)
    /\ pc' = "cchecked"
    /\ UNCHANGED <<cinput, wrapped, cout, ctext, textKind, nonCanonVars>>

NextCanon ==
    \/ CSetProp
    \/ CPush
    \/ CWrapInObject
    \/ CWrapInArray
    \/ CCanonicalize
    \/ CTextCanonical
    \/ CTextStringify
    \/ CInsertSpace
    \/ CDropChar
    \/ CIsCanonical

SpecCanon == InitCanon /\ [][NextCanon]_vars

(* Driver of the record hasher: hash a record, write the same record        *)
(* another way, hash again.                                                 *)

KeyTemperature == Str(<<"t", "e", "m", "p">>)
KeyTokens == Str(<<"m", "a", "x">>)

\* { temp: 1, max: [ { b: 1, a: 2 } ] }
SomeParameters ==
    Obj(<<[key |-> KeyTemperature, val |-> Num(1)],
          [key |-> KeyTokens,
           val |-> Arr(<<Obj(<<[key |-> KeyB, val |-> Num(1)],
                               [key |-> KeyA, val |-> Num(2)]>>)>>)]>>)

BaseRecord ==
    Obj(<<[key |-> FieldModel, val |-> StrV(Str(<<"m", "1">>))],
          [key |-> FieldPromptHash, val |-> StrV(Leaf1)],
          [key |-> FieldOutputHash, val |-> StrV(Leaf2)]>>)

WithField(rec, key, choice) ==
    IF IsUndefined(choice) THEN rec ELSE ObjSet(rec, key, choice)

HasherRecords ==
    {WithField(WithField(WithField(WithField(BaseRecord, FieldParameters, ps),
                                   FieldContext, cx), FieldTimestamp, ts),
               FieldNonce, nc) :
        ps \in {Undefined, Obj(<<>>), SomeParameters},
        cx \in {Undefined, Obj(<<>>), Obj(<<[key |-> KeyA, val |-> StrV(Str(<<"s">>))]>>)},
        ts \in {Undefined, Num(3)},
        nc \in {Undefined, StrV(Str(<<"n", "1">>))}}

InitHasher ==
    /\ pc = "hinput"
    /\ record \in HasherRecords
    /\ recHash = <<>>
    /\ cliHash = <<>>
    /\ prevRecord = Obj(<<>>)
    /\ prevRecHash = <<>>
    /\ lastEdit = "none"
    /\ operands = <<>>
    /\ combos = <<>>
    /\ claimed = <<>>
    /\ matches = FALSE
    /\ MerkleIdle
    /\ hashes = <<>>
    /\ CanonIdle
    /\ cinput = Undefined
    /\ SysIdle

HHash ==
    /\ pc = "hinput"
    /\ recHash' = hashInference(record)
    /\ cliHash' = cliHashInference(record)
    /\ pc' = "hashed"
    /\ UNCHANGED <<record, prevRecord, prevRecHash, lastEdit, operands, combos,
                   claimed, matches, nonHasherVars>>

\* hand the next call the same record written another way
Rewritten(newRecord, edit) ==
    /\ prevRecord' = record
    /\ prevRecHash' = recHash
    /\ record' = newRecord
    /\ lastEdit' = edit
    /\ recHash' = <<>>
    /\ cliHash' = <<>>
    /\ pc' = "hinput"
    /\ UNCHANGED <<operands, combos, claimed, matches, nonHasherVars>>

Without(entries, key) == SelectSeq(entries, LAMBDA e : e.key # key)

RECURSIVE Reversed(_)
\* the same value with the properties of every object created in the
\* opposite order
Reversed(v) ==
    IF IsObject(v)
    THEN Obj([i \in 1..Len(v.obj) |->
                 [key |-> v.obj[Len(v.obj) + 1 - i].key,
                  val |-> Reversed(v.obj[Len(v.obj) + 1 - i].val)]])
    ELSE IF IsArray(v) THEN Arr([i \in 1..Len(v.arr) |-> Reversed(v.arr[i])])
    ELSE v

\* the fields given in another order: one field moved to the end
HMoveField ==
    /\ pc = "hashed"
    /\ lastEdit = "none"
    /\ \E i \in 1..(Len(record.obj) - 1) :
          Rewritten(Obj(Append(Without(record.obj, record.obj[i].key), record.obj[i])),
                    "order")

\* the fields at every depth given in the opposite order
HReverseFields ==
    /\ pc = "hashed"
    /\ lastEdit = "none"
    /\ Rewritten(Reversed(record), "order")

\* prompt_hash or output_hash in another letter case
HRecase ==
    /\ pc = "hashed"
    /\ lastEdit = "none"
    /\ \E key \in {FieldPromptHash, FieldOutputHash}, kind \in {"upper", "mixed"} :
          Rewritten(ObjSet(record, key, StrV(Spell(Get(record, key).str, kind))), "case")

\* prompt_hash or output_hash without its 0x prefix
HDropPrefix ==
    /\ pc = "hashed"
    /\ lastEdit = "none"
    /\ \E key \in {FieldPromptHash, FieldOutputHash} :
          Rewritten(ObjSet(record, key, StrV(Spell(Get(record, key).str, "bare"))), "prefix")

\* an empty parameters or context mapping left out
HOmitEmpty ==
    /\ pc = "hashed"
    /\ lastEdit = "none"
    /\ \E key \in {FieldParameters, FieldContext} :
          /\ Get(record, key) = Obj(<<>>)
          /\ Rewritten(Obj(Without(record.obj, key)), "empty")

\* an empty parameters or context mapping put in
HAddEmpty ==
    /\ pc = "hashed"
    /\ lastEdit = "none"
    /\ \E key \in {FieldParameters, FieldContext} :
          /\ ~HasKey(record.obj, key)
          /\ Rewritten(ObjSet(record, key, Obj(<<>>)), "empty")

\* a parameters or context mapping put in whose only key holds undefined
HAddVoid ==
    /\ pc = "hashed"
    /\ lastEdit = "none"
    /\ \E key \in {FieldParameters, FieldContext} :
          /\ ~HasKey(record.obj, key)
          /\ Rewritten(ObjSet(record, key,
                              Obj(<<[key |-> KeyTemperature, val |-> Undefined]>>)),
                       "void")

NextHasher ==
    \/ HHash
    \/ HMoveField
    \/ HReverseFields
    \/ HRecase
    \/ HDropPrefix
    \/ HOmitEmpty
    \/ HAddEmpty
    \/ HAddVoid

SpecHasher == InitHasher /\ [][NextHasher]_vars

(* The two pairwise combinations, hashPair of merkle.ts and combineHashes *)
(* of hasher.ts, on the same operands                                       *)

CombineOperands == {Spell(h, kind) : h \in {Leaf1, Leaf2, Leaf4}, kind \in SpellKinds}

InitCombine ==
    /\ pc = "pair"
    /\ operands \in CombineOperands \X CombineOperands
    /\ combos = <<>>
    /\ record = Obj(<<>>)
    /\ recHash = <<>>
    /\ cliHash = <<>>
    /\ prevRecord = Obj(<<>>)
    /\ prevRecHash = <<>>
    /\ lastEdit = "none"
    /\ claimed = <<>>
    /\ matches = FALSE
    /\ MerkleIdle
    /\ hashes = <<>>
    /\ CanonIdle
    /\ cinput = Undefined
    /\ SysIdle

\* both functions are called with the operands in either order
KCombine ==
    /\ pc = "pair"
    /\ combos' =
          [hashPair |-> <<hashPair(operands[1], operands[2]),
                          hashPair(operands[2], operands[1])>>,
           combineHashes |-> <<combineHashes(operands[1], operands[2]),
                               combineHashes(operands[2], operands[1])>>]
    /\ pc' = "combined"
    /\ UNCHANGED <<record, recHash, cliHash, prevRecord, prevRecHash, lastEdit, operands,
                   claimed, matches, nonHasherVars>>

\* the next call is made with one operand in another spelling
KRespell ==
    /\ pc = "combined"
    /\ \E i \in {1, 2}, kind \in SpellKinds :
          operands' = [operands EXCEPT ![i] = Spell(normalizeHash(operands[i]), kind)]
    /\ combos' = <<>>
    /\ pc' = "pair"
    /\ UNCHANGED <<record, recHash, cliHash, prevRecord, prevRecHash, lastEdit,
                   claimed, matches, nonHasherVars>>

NextCombine ==
    \/ KCombine
    \/ KRespell

SpecCombine == InitCombine /\ [][NextCombine]_vars

(* verifyInferenceHash on a record and claimed hashes of every kind *)

\* the record with another model name
OtherModel(rec) == ObjSet(rec, FieldModel, StrV(Str(<<"m", "2">>)))

\* hashes a caller may claim for a record: its own hash and the hash of
\* another record in every spelling, its own hash with one byte changed,
\* with the prefix twice, with a digit more, and texts that are no hash
ClaimedHashes(rec) ==
    LET own == hashInference(rec)
    IN  {Spell(h, kind) : h \in {own, hashInference(OtherModel(rec))}, kind \in SpellKinds}
            \cup OneByteChanges(own)
            \cup {<<C("0"), C("x")>> \o own, Append(own, C("0")), <<>>,
                  Str(<<"0", "x", "0", "0", "0">>)}

InitClaimed ==
    /\ pc = "claim"
    /\ record \in HasherRecords
    /\ claimed = <<>>
    /\ matches = FALSE
    /\ recHash = <<>>
    /\ cliHash = <<>>
    /\ prevRecord = Obj(<<>>)
    /\ prevRecHash = <<>>
    /\ lastEdit = "none"
    /\ operands = <<>>
    /\ combos = <<>>
    /\ MerkleIdle
    /\ hashes = <<>>
    /\ CanonIdle
    /\ cinput = Undefined
    /\ SysIdle

\* verifyInferenceHash(record, claimed) is called
VVerifyHash ==
    /\ pc = "claim"
    /\ \E expectedHash \in ClaimedHashes(record) :
          /\ claimed' = expectedHash
          /\ matches' = verifyInferenceHash(record, expectedHash)
    /\ pc' = "claimed"
    /\ UNCHANGED <<record, recHash, cliHash, prevRecord, prevRecHash, lastEdit,
                   operands, combos, nonHasherVars>>

\* the next call is made for the record with another model name
VOtherRecord ==
    /\ pc = "claimed"
    /\ record' = OtherModel(record)
    /\ record' # record
    /\ claimed' = <<>>
    /\ matches' = FALSE
    /\ pc' = "claim"
    /\ UNCHANGED <<recHash, cliHash, prevRecord, prevRecHash, lastEdit,
                   operands, combos, nonHasherVars>>

NextClaimed ==
    \/ VVerifyHash
    \/ VOtherRecord

SpecClaimed == InitClaimed /\ [][NextClaimed]_vars

(* The server: the handlers of POST /api/inference, /api/batch and          *)
(* /api/anchor, the registry contract on each chain, and verifyInference.   *)
(* Node runs one handler at a time up to its next await; a response or a    *)
(* result is taken by its caller before the next step starts.               *)

RecordA ==
    Obj(<<[key |-> FieldModel, val |-> StrV(Str(<<"m", "1">>))],
          [key |-> FieldPromptHash, val |-> StrV(Leaf1)],
          [key |-> FieldOutputHash, val |-> StrV(Leaf2)]>>)

HashA == hashInference(RecordA)

InferenceBodies == {RecordA, Obj(<<[key |-> FieldModel, val |-> StrV(<<>>)]>>)}

BatchHashLists == {<<Leaf1>>, <<Spell(HashA, "upper"), Leaf1>>}

BatchBodies ==
    [inference_hashes : {Arr(hs) : hs \in BatchHashLists}, batch_size : {Undefined}]
        \cup [inference_hashes : {Undefined, Arr(<<>>)}, batch_size : {Undefined}]
        \cup [inference_hashes : {Undefined}, batch_size : {Num(0)}]

AnchorBodies(known) ==
    [batch_id : {Num(i) : i \in 1..(known + 1)}, hashes : {Undefined}, chain : {Undefined}]
        \cup [batch_id : {Undefined}, hashes : {Undefined, Arr(<<Leaf1>>)},
              chain : {Undefined}]
        \cup [batch_id : {Undefined}, hashes : {Undefined},
              chain : {Name("chainC"), Name("chainX")}]

\* requests that name a stored batch and the second chain with a registry
OtherChainBodies(known) ==
    [batch_id : {Num(i) : i \in 1..known}, hashes : {Undefined}, chain : {Name("chainB")}]

VerifyInputs ==
    [record : {Undefined, RecordA},
     hash : {Undefined, StrV(Spell(HashA, "upper")), StrV(Leaf1)}]
        \cup {[record |-> Undefined, hash |-> StrV(<<>>)],
              [record |-> RecordA, hash |-> StrV(Spell(HashA, "bare"))]}

VerifyCalls ==
    [input : VerifyInputs, options : {[endpoint |-> "none"]}]
        \cup [input : {[record |-> RecordA, hash |-> Undefined]},
              options : [endpoint : Chains]]

Init ==
    /\ pc = "serving"
    /\ SysIdle
    /\ MerkleIdle
    /\ hashes = <<>>
    /\ CanonIdle
    /\ cinput = Undefined
    /\ HasherIdle

NoResponse == [status |-> 0, code |-> "none"]

\* no response and no result is waiting for its caller
Quiet == response = NoResponse /\ vresult = NoResult

Respond(status, code) == response' = [status |-> status, code |-> code]

\* `!body.field || typeof body.field !== 'string'`
MissingString(body, field) ==
    ~IsString(Get(body, field)) \/ Get(body, field).str = <<>>

\* POST /api/inference
PostInference ==
    /\ Quiet
    /\ Len(inferences) < MaxInferences
    /\ \E body \in InferenceBodies :
          IF MissingString(body, FieldModel)
          THEN Respond(400, "INVALID_MODEL") /\ UNCHANGED inferences
          ELSE IF MissingString(body, FieldPromptHash)
          THEN Respond(400, "INVALID_PROMPT_HASH") /\ UNCHANGED inferences
          ELSE IF MissingString(body, FieldOutputHash)
          THEN Respond(400, "INVALID_OUTPUT_HASH") /\ UNCHANGED inferences
          ELSE LET rec == Obj(<<[key |-> FieldModel, val |-> Get(body, FieldModel)],
                                [key |-> FieldPromptHash, val |-> Get(body, FieldPromptHash)],
                                [key |-> FieldOutputHash, val |-> Get(body, FieldOutputHash)],
                                [key |-> FieldParameters, val |-> Get(body, FieldParameters)],
                                [key |-> FieldContext, val |-> Get(body, FieldContext)],
                                [key |-> FieldTimestamp, val |-> Num(clock)]>>)
               IN  /\ inferences' = storeInference(inferences,
                                        [record |-> rec,
                                         inference_hash |-> hashInference(rec),
                                         stored_at |-> clock])
                   /\ Respond(201, "created")
    /\ UNCHANGED <<batches, anchors, chainVars, clock, verifyVars, inflight, nonSysVars>>

\* generateBatchId: a fresh id
generateBatchId(bs) == Len(bs) + 1

\* POST /api/batch
PostBatch ==
    /\ Quiet
    /\ Len(batches) < MaxBatches
    /\ \E body \in BatchBodies :
          LET unbatched == getUnbatchedInferences(inferences, batches)
              given == /\ ~IsUndefined(body.inference_hashes)
                       /\ Len(body.inference_hashes.arr) > 0
              batchSize == IF IsUndefined(body.batch_size) THEN Len(unbatched)
                           ELSE body.batch_size.num
              hs == IF given THEN body.inference_hashes.arr
                    ELSE [i \in 1..batchSize |-> unbatched[i].inference_hash]
              b == buildMerkleBatch(hs, generateBatchId(batches), clock)
          IN  IF ~given /\ Len(unbatched) = 0
              THEN Respond(400, "NO_INFERENCES") /\ UNCHANGED batches
              ELSE IF Len(hs) = 0
              THEN Respond(400, "EMPTY_BATCH") /\ UNCHANGED batches
              ELSE IF IsThrown(b)
              THEN Respond(500, "INTERNAL_ERROR") /\ UNCHANGED batches
              ELSE /\ batches' = storeBatch(batches, b)
                   /\ Respond(201, "created")
    /\ UNCHANGED <<inferences, anchors, chainVars, clock, verifyVars, inflight, nonSysVars>>

\* POST /api/anchor up to `await anchorRootFn(merkleRoot)`, for a request
\* body among bodies
AnchorSubmitOf(bodies) ==
    /\ Quiet
    /\ txCount < MaxTxs
    /\ \E body \in bodies :
          LET chainName == IF IsUndefined(body.chain) THEN ChainsConfig.defaultChain
                           ELSE body.chain.name
              known == chainName \in DOMAIN ChainsConfig.chains
              chainConfig == ChainsConfig.chains[chainName]
              found == getBatch(batches, body.batch_id.num)
              built == buildMerkleBatch(body.hashes.arr, generateBatchId(batches), clock)
              unanchored == getUnanchoredBatches(batches, anchors)
              Send(b) == /\ txs' = Append(txs, [id |-> txCount + 1,
                                               batch_id |-> b.batch_id,
                                               merkle_root |-> b.root,
                                               chain |-> chainName,
                                               stage |-> "sent",
                                               before |-> [batches |-> batches,
                                                           anchors |-> anchors]])
                         /\ txCount' = txCount + 1
                         /\ UNCHANGED response
          IN  IF ~known
              THEN Respond(400, "INVALID_CHAIN") /\ UNCHANGED <<batches, txs, txCount>>
              ELSE IF chainConfig.contractAddress = ""
              THEN Respond(500, "CONTRACT_NOT_DEPLOYED") /\ UNCHANGED <<batches, txs, txCount>>
              ELSE IF ~IsUndefined(body.batch_id)
              THEN IF IsUndefined(found)
                   THEN Respond(404, "BATCH_NOT_FOUND") /\ UNCHANGED <<batches, txs, txCount>>
                   ELSE Send(found) /\ UNCHANGED batches
              ELSE IF ~IsUndefined(body.hashes) /\ Len(body.hashes.arr) > 0
              THEN IF IsThrown(built)
                   THEN Respond(500, "INTERNAL_ERROR") /\ UNCHANGED <<batches, txs, txCount>>
                   ELSE /\ Len(batches) < MaxBatches
                        /\ batches' = storeBatch(batches, built)
                        /\ Send(built)
              ELSE IF Len(unanchored) = 0
              THEN Respond(400, "NO_BATCHES") /\ UNCHANGED <<batches, txs, txCount>>
              ELSE Send(unanchored[1]) /\ UNCHANGED batches
    /\ UNCHANGED <<inferences, anchors, anchoredAt, clock, verifyVars, inflight, nonSysVars>>

AnchorSubmit == AnchorSubmitOf(AnchorBodies(Len(batches)))

\* the chain executes anchorRoot(root) of a sent transaction in a new block
RegistryAnchorRoot ==
    /\ Quiet
    /\ \E i \in 1..Len(txs) :
          /\ txs[i].stage = "sent"
          /\ LET tx == txs[i]
                 after == anchorRoot(anchoredAt[tx.chain], tx.merkle_root, clock)
             IN  IF IsThrown(after)
                 THEN /\ txs' = [txs EXCEPT ![i] = [tx EXCEPT !.stage = after.error]]
                      /\ UNCHANGED <<anchoredAt, clock>>
                 ELSE /\ anchoredAt' = [anchoredAt EXCEPT ![tx.chain] = after.value]
                      /\ txs' = [txs EXCEPT ![i] =
                                    [id |-> tx.id,
                                     batch_id |-> tx.batch_id,
                                     merkle_root |-> tx.merkle_root,
                                     chain |-> tx.chain,
                                     before |-> tx.before,
                                     stage |-> "mined",
                                     hash |-> <<C("0"), C("x")>> \o NatToStr(tx.id),
                                     blockNumber |-> clock]]
                      /\ clock' = clock + 1
    /\ UNCHANGED <<storeVars, txCount, response, verifyVars, inflight, nonSysVars>>

\* the transaction never reaches the chain: the provider call fails
TransactionLost ==
    /\ Quiet
    /\ \E i \in 1..Len(txs) :
          /\ txs[i].stage = "sent"
          /\ txs' = [txs EXCEPT ![i] = [txs[i] EXCEPT !.stage = "network error"]]
    /\ UNCHANGED <<storeVars, anchoredAt, txCount, clock, response, verifyVars, inflight, nonSysVars>>

\* POST /api/anchor from the return of `await tx.wait()` (or the catch)
AnchorComplete ==
    /\ Quiet
    /\ \E i \in 1..Len(txs) :
          LET tx == txs[i]
              chainConfig == ChainsConfig.chains[tx.chain]
          IN  /\ tx.stage # "sent"
              /\ txs' = [j \in 1..(Len(txs) - 1) |-> IF j < i THEN txs[j] ELSE txs[j + 1]]
              /\ IF tx.stage = "mined"
                 THEN /\ anchors' = storeAnchor(anchors,
                                        [batch_id |-> tx.batch_id,
                                         merkle_root |-> tx.merkle_root,
                                         tx_hash |-> tx.hash,
                                         block_number |-> tx.blockNumber,
                                         chain_id |-> chainConfig.chainId,
                                         chain_name |-> chainConfig.name,
                                         anchored_at |-> clock])
                      /\ Respond(201, "created")
                 ELSE IF tx.stage = "RootAlreadyAnchored"
                 THEN Respond(409, "ALREADY_ANCHORED") /\ UNCHANGED anchors
                 ELSE Respond(500, "INTERNAL_ERROR") /\ UNCHANGED anchors
    /\ UNCHANGED <<inferences, batches, anchoredAt, txCount, clock, verifyVars, inflight, nonSysVars>>

\* verifyInference(input, options) is called and runs to its first await
VerifyInference ==
    /\ Quiet
    /\ vcall = NoCall
    /\ \E call \in VerifyCalls :
          \E ran \in {verifyInferenceStart(call.input, call.options, batches, anchors)} :
              /\ vinput' = call
              /\ vread' = Returned(0)
              /\ vqueried' = ran.queried
              /\ IF "waiting" \in DOMAIN ran.out
                 THEN vcall' = ran.out /\ vresult' = NoResult
                 ELSE vcall' = NoCall /\ vresult' = ran.out
    /\ UNCHANGED <<storeVars, chainVars, clock, response, inflight, nonSysVars>>

\* POST /api/verify: verifyInference is called without options
PostVerify ==
    /\ Quiet
    /\ vcall = NoCall
    /\ \E body \in VerifyInputs :
          IF ~Truthy(body.hash) /\ IsUndefined(body.record)
          THEN Respond(400, "MISSING_INPUT") /\ UNCHANGED <<vinput, vresult, vqueried>>
          ELSE \E call \in {[input |-> body, options |-> [endpoint |-> "none"]]} :
               \E ran \in {verifyInferenceStart(call.input, call.options, batches, anchors)} :
                   /\ vinput' = call
                   /\ vqueried' = ran.queried
                   /\ vresult' = ran.out
                   /\ response' = IF ~IsResult(ran.out)
                                  THEN [status |-> 500, code |-> "INTERNAL_ERROR"]
                                  ELSE [status |-> 200, code |-> "ok",
                                        body |-> VerifyResponse(ran.out)]
    /\ UNCHANGED <<storeVars, chainVars, clock, vcall, vread, inflight, nonSysVars>>

\* the hash query parameter of GET /api/verify/explain
ExplainQueries == {Undefined, StrV(Leaf1), StrV(Spell(HashA, "upper"))}

\* GET /api/verify/explain
GetExplain ==
    /\ Quiet
    /\ vcall = NoCall
    /\ \E hash \in ExplainQueries :
          IF ~Truthy(hash)
          THEN LET genericResult == [NoFields EXCEPT !.verified = FALSE,
                                                     !.inference_hash = <<>>]
               IN  /\ response' = [status |-> 200, code |-> "ok",
                                   explained |-> genericResult,
                                   explain |-> explainVerification(genericResult)]
                   /\ UNCHANGED <<vinput, vresult, vqueried>>
          ELSE \E call \in {[input |-> [record |-> Undefined, hash |-> hash],
                              options |-> [endpoint |-> "none"]]} :
               \E ran \in {verifyInferenceStart(call.input, call.options, batches, anchors)} :
                   /\ vinput' = call
                   /\ vqueried' = ran.queried
                   /\ vresult' = ran.out
                   /\ response' = IF ~IsResult(ran.out)
                                  THEN [status |-> 500, code |-> "INTERNAL_ERROR"]
                                  ELSE [status |-> 200, code |-> "ok",
                                        explained |-> ran.out,
                                        explain |-> explainVerification(ran.out)]
    /\ UNCHANGED <<storeVars, chainVars, clock, vcall, vread, inflight, nonSysVars>>

\* the live read of anchoredAt(root) returns and verifyInference finishes
VerifyOnChainReturns ==
    /\ Quiet
    /\ vcall # NoCall
    /\ \E read \in {Returned(anchoredAtOf(anchoredAt[vcall.endpoint], vcall.batch.root)),
                    Threw("network error")} :
          /\ vread' = read
          /\ vresult' = verifyInferenceFinish(vcall, read)
    /\ vqueried' = Append(vqueried, "anchoredAt")
    /\ vcall' = NoCall
    /\ UNCHANGED <<storeVars, chainVars, clock, response, vinput, inflight, nonSysVars>>

\* the caller takes the response or the result
Deliver ==
    /\ ~Quiet
    /\ response' = NoResponse
    /\ vresult' = NoResult
    /\ IF vresult # NoResult
       THEN vinput' = NoCall /\ vread' = Returned(0) /\ vqueried' = <<>>
       ELSE UNCHANGED <<vinput, vread, vqueried>>
    /\ UNCHANGED <<storeVars, chainVars, clock, vcall, inflight, nonSysVars>>

Next ==
    \/ PostInference
    \/ PostBatch
    \/ AnchorSubmit
    \/ RegistryAnchorRoot
    \/ TransactionLost
    \/ AnchorComplete
    \/ VerifyInference
    \/ PostVerify
    \/ GetExplain
    \/ VerifyOnChainReturns
    \/ Deliver

Spec == Init /\ [][Next]_vars

(* The anchoring service alone, with requests for both chains that have a   *)
(* registry                                                                 *)

AnchorSubmitAnyChain ==
    AnchorSubmitOf(AnchorBodies(Len(batches)) \cup OtherChainBodies(Len(batches)))

NextAnchor ==
    \/ PostBatch
    \/ AnchorSubmitAnyChain
    \/ RegistryAnchorRoot
    \/ TransactionLost
    \/ AnchorComplete
    \/ Deliver

SpecAnchor == Init /\ [][NextAnchor]_vars

(* The anchoring service handling one POST /api/anchor request at a time: *)
(* no other request is taken while a handler waits for its transaction    *)

PostBatchAlone == txs = <<>> /\ PostBatch

AnchorSubmitAlone == txs = <<>> /\ AnchorSubmitAnyChain

NextAnchorAlone ==
    \/ PostBatchAlone
    \/ AnchorSubmitAlone
    \/ RegistryAnchorRoot
    \/ TransactionLost
    \/ AnchorComplete
    \/ Deliver

SpecAnchorAlone == Init /\ [][NextAnchorAlone]_vars

(* The anchoring service under repeated POST /api/anchor requests with   *)
(* neither batch_id nor hashes, against a public registry that executes   *)
(* every transaction it is sent                                            *)

DefaultAnchorBody == [batch_id |-> Undefined, hashes |-> Undefined, chain |-> Undefined]

\* POST /api/anchor {} up to `await anchorRootFn(merkleRoot)`
AnchorDefault == txs = <<>> /\ AnchorSubmitOf({DefaultAnchorBody})

\* anchorRoot(root) is external: another account anchors the root of a
\* batch on the default chain
OutsiderAnchorRoot ==
    /\ Quiet
    /\ \E i \in 1..Len(batches) :
          \E after \in {anchorRoot(anchoredAt[ChainsConfig.defaultChain],
                                   batches[i].root, clock)} :
              /\ ~IsThrown(after)
              /\ anchoredAt' = [anchoredAt EXCEPT ![ChainsConfig.defaultChain] = after.value]
              /\ clock' = clock + 1
    /\ UNCHANGED <<storeVars, txs, txCount, response, verifyVars, inflight, nonSysVars>>

\* `await tx.wait()` throws although the transaction was mined
ReceiptLost ==
    /\ Quiet
    /\ \E i \in 1..Len(txs) :
          /\ txs[i].stage = "mined"
          /\ txs' = [txs EXCEPT ![i] = [txs[i] EXCEPT !.stage = "network error"]]
    /\ UNCHANGED <<storeVars, anchoredAt, txCount, clock, response, verifyVars, inflight, nonSysVars>>

\* the server keeps nothing of a transaction whose request ended in an
\* error: its number names no stored record and is free again
TransactionForgotten ==
    /\ Quiet
    /\ txs = <<>>
    /\ txCount > 0
    /\ \A i \in 1..Len(anchors) : anchors[i].tx_hash # <<C("0"), C("x")>> \o NatToStr(txCount)
    /\ txCount' = txCount - 1
    /\ UNCHANGED <<storeVars, anchoredAt, txs, clock, response, verifyVars, inflight, nonSysVars>>

NextEventually ==
    \/ PostBatchAlone
    \/ AnchorDefault
    \/ RegistryAnchorRoot
    \/ OutsiderAnchorRoot
    \/ ReceiptLost
    \/ AnchorComplete
    \/ TransactionForgotten
    \/ Deliver

\* requests keep coming, the chain executes what it is sent, handlers resume
\* and responses are delivered
FairEventually ==
    /\ SF_vars(AnchorDefault)
    /\ SF_vars(RegistryAnchorRoot)
    /\ SF_vars(AnchorComplete)
    /\ SF_vars(TransactionForgotten)
    /\ SF_vars(Deliver)

SpecEventually == Init /\ [][NextEventually]_vars /\ FairEventually

\* the same service when nobody else uses the registry and no receipt is lost
NextUndisturbed ==
    \/ PostBatchAlone
    \/ AnchorDefault
    \/ RegistryAnchorRoot
    \/ AnchorComplete
    \/ TransactionForgotten
    \/ Deliver

SpecUndisturbed == Init /\ [][NextUndisturbed]_vars /\ FairEventually

(* Concurrent requests: POST /api/inference and POST /api/batch without  *)
(* inference_hashes.  A handler runs without interruption up to its        *)
(* await; storeInference and storeBatch have no await inside, so the store *)
(* is written before the handler yields, and the response follows later.   *)

ConcurrentBodies == {RecordA, OtherModel(RecordA)}

DefaultBatchBodies ==
    [inference_hashes : {Undefined}, batch_size : {Undefined, Num(1)}]

InitConcurrent ==
    /\ pc = "concurrent"
    /\ SysIdle
    /\ MerkleIdle
    /\ hashes = <<>>
    /\ CanonIdle
    /\ cinput = Undefined
    /\ HasherIdle

\* a handler that has written the store and waits to respond
InFlight(kind, body, before, status, code) ==
    [kind |-> kind, body |-> body, before |-> before, status |-> status, code |-> code]

\* the inference hashes in the store
StoredHashes(infs) == {infs[i].inference_hash : i \in 1..Len(infs)}

\* POST /api/inference up to `await storage.storeInference(...)`
CPostInference ==
    /\ pc = "concurrent"
    /\ Len(inflight) < MaxInFlight
    /\ \E body \in ConcurrentBodies :
          IF MissingString(body, FieldModel)
          THEN /\ inflight' = Append(inflight, InFlight("inference", body,
                                   StoredHashes(inferences), 400, "INVALID_MODEL"))
               /\ UNCHANGED inferences
          ELSE IF MissingString(body, FieldPromptHash)
          THEN /\ inflight' = Append(inflight, InFlight("inference", body,
                                   StoredHashes(inferences), 400, "INVALID_PROMPT_HASH"))
               /\ UNCHANGED inferences
          ELSE IF MissingString(body, FieldOutputHash)
          THEN /\ inflight' = Append(inflight, InFlight("inference", body,
                                   StoredHashes(inferences), 400, "INVALID_OUTPUT_HASH"))
               /\ UNCHANGED inferences
          ELSE \E rec \in {Obj(<<[key |-> FieldModel, val |-> Get(body, FieldModel)],
                                 [key |-> FieldPromptHash, val |-> Get(body, FieldPromptHash)],
                                 [key |-> FieldOutputHash, val |-> Get(body, FieldOutputHash)],
                                 [key |-> FieldParameters, val |-> Get(body, FieldParameters)],
                                 [key |-> FieldContext, val |-> Get(body, FieldContext)],
                                 [key |-> FieldTimestamp, val |-> Num(clock)]>>)} :
                   /\ inferences' = storeInference(inferences,
                                        [record |-> rec,
                                         inference_hash |-> hashInference(rec),
                                         stored_at |-> clock])
                   /\ inflight' = Append(inflight, InFlight("inference", body,
                                       StoredHashes(inferences), 201, "created"))
    /\ UNCHANGED <<batches, anchors, chainVars, clock, response, verifyVars, nonSysVars>>

\* POST /api/batch without inference_hashes up to `await storage.storeBatch(batch)`
CPostBatch ==
    /\ pc = "concurrent"
    /\ Len(inflight) < MaxInFlight
    /\ \E body \in DefaultBatchBodies :
        \E unbatched \in {getUnbatchedInferences(inferences, batches)} :
          LET batchSize == IF IsUndefined(body.batch_size) THEN Len(unbatched)
                           ELSE body.batch_size.num
              hs == [i \in 1..batchSize |-> unbatched[i].inference_hash]
          IN  IF Len(unbatched) = 0
              THEN /\ inflight' = Append(inflight, InFlight("batch", body,
                                       StoredHashes(inferences), 400, "NO_INFERENCES"))
                   /\ UNCHANGED batches
              ELSE IF Len(hs) = 0
              THEN /\ inflight' = Append(inflight, InFlight("batch", body,
                                       StoredHashes(inferences), 400, "EMPTY_BATCH"))
                   /\ UNCHANGED batches
              ELSE \E b \in {buildMerkleBatch(hs, generateBatchId(batches), clock)} :
                   IF IsThrown(b)
                   THEN /\ inflight' = Append(inflight, InFlight("batch", body,
                                            StoredHashes(inferences), 500, "INTERNAL_ERROR"))
                        /\ UNCHANGED batches
                   ELSE /\ batches' = storeBatch(batches, b)
                        /\ inflight' = Append(inflight, InFlight("batch", body,
                                            StoredHashes(inferences), 201, "created"))
    /\ UNCHANGED <<inferences, anchors, chainVars, clock, response, verifyVars, nonSysVars>>

\* a handler resumes after its await and sends its response
CRespond ==
    /\ pc = "concurrent"
    /\ \E i \in 1..Len(inflight) :
          /\ response' = inflight[i]
          /\ inflight' = [j \in 1..(Len(inflight) - 1) |->
                             IF j < i THEN inflight[j] ELSE inflight[j + 1]]
    /\ UNCHANGED <<storeVars, chainVars, clock, verifyVars, nonSysVars>>

NextConcurrent ==
    \/ CPostInference
    \/ CPostBatch
    \/ CRespond

SpecConcurrent == InitConcurrent /\ [][NextConcurrent]_vars

(* The registry contract alone, called by anyone with any root *)

ZeroRoot == Str(<<"0", "x", "0", "0">>)

RegistryRoots == {ZeroRoot, Leaf1, Spell(Leaf1, "upper"), Leaf2}

\* the chain whose registry is called
RegistryChains == {"chainA"}

InitRegistry ==
    /\ pc = "registry"
    /\ SysIdle
    /\ MerkleIdle
    /\ hashes = <<>>
    /\ CanonIdle
    /\ cinput = Undefined
    /\ HasherIdle

\* a transaction calling anchorRoot(root) is executed in the current block;
\* txs holds the last transaction executed and how it ended
RAnchorRoot ==
    /\ \E chain \in RegistryChains, root \in RegistryRoots :
          LET after == anchorRoot(anchoredAt[chain], root, clock)
          IN  /\ txs' = <<[chain |-> chain, merkle_root |-> root,
                           stage |-> IF IsThrown(after) THEN after.error ELSE "mined"]>>
              /\ anchoredAt' = IF IsThrown(after) THEN anchoredAt
                               ELSE [anchoredAt EXCEPT ![chain] = after.value]
    /\ response' = NoResponse
    /\ UNCHANGED <<storeVars, txCount, clock, verifyVars, inflight, nonSysVars>>

\* the chain starts its next block
RNextBlock ==
    /\ clock < MaxBlocks
    /\ clock' = clock + 1
    /\ UNCHANGED <<storeVars, chainVars, response, verifyVars, inflight, nonSysVars>>

\* the view functions isAnchored(root) and getAnchorTimestamp(root) are read
RView ==
    /\ \E chain \in RegistryChains, root \in RegistryRoots :
          response' = [status |-> 200, code |-> "view", chain |-> chain, root |-> root,
                       isAnchored |-> isAnchored(anchoredAt[chain], root),
                       timestamp |-> getAnchorTimestamp(anchoredAt[chain], root)]
    /\ UNCHANGED <<storeVars, chainVars, clock, verifyVars, inflight, nonSysVars>>

NextRegistry ==
    \/ RAnchorRoot
    \/ RNextBlock
    \/ RView

SpecRegistry == InitRegistry /\ [][NextRegistry]_vars

(* Properties of the Merkle builder and prover *)

\* the 32 bytes a hash string spells: its hex digits, whatever the letter
\* case and with or without the 0x prefix
HashValue(h) ==
    LET l == toLowerCase(h)
    IN  IF Len(l) >= 2 /\ l[1] = C("0") /\ l[2] = C("x")
        THEN SubSeq(l, 3, Len(l)) ELSE l

Count(x, list) == Cardinality({i \in 1..Len(list) : list[i] = x})
Values(list) == [i \in 1..Len(list) |-> HashValue(list[i])]
Range(list) == {list[i] : i \in 1..Len(list)}

IsPermutation(a, b) ==
    /\ Len(a) = Len(b)
    /\ \A x \in Range(a) \cup Range(b) : Count(x, a) = Count(x, b)

IsCaseVariant(a, b) ==
    /\ Len(a) = Len(b)
    /\ \A i \in 1..Len(a) : toLowerCase(a[i]) = toLowerCase(b[i])

WellFormedHash(str) ==
    LET digits == IF Len(str) >= 2 /\ str[1] = C("0") /\ str[2] \in {C("x"), C("X")}
                  THEN SubSeq(str, 3, Len(str)) ELSE str
    IN  \A i \in 1..Len(digits) : IsLit(digits[i]) => digits[i].c \in HexDigits

C3_RootOrderCaseInvariant ==
    (/\ pc = "built"
     /\ IsBatch(prevBatch)
     /\ IsPermutation(prevHashes, hashes) \/ IsCaseVariant(prevHashes, hashes))
    => /\ IsBatch(batch)
       /\ batch.root = prevBatch.root
       /\ batch.leaves = prevBatch.leaves

\* a four-leaf input was rebuilt from a different order
C3_Witness ==
    /\ pc = "built"
    /\ IsBatch(prevBatch)
    /\ Len(hashes) = 4
    /\ hashes # prevHashes
    /\ IsPermutation(prevHashes, hashes)
    /\ batch.root = prevBatch.root

\* C4 as claimed: equal sets of normalized hashes give equal roots,
\* however often a hash is repeated.
C4_RootDependsOnSetOnly ==
    (/\ pc = "built"
     /\ IsBatch(prevBatch)
     /\ Range(Values(prevHashes)) = Range(Values(hashes)))
    => IsBatch(batch) /\ batch.root = prevBatch.root

\* C4 amended: the root depends only on the normalized hashes and how often
\* each occurs: two inputs in which every normalized hash occurs the same
\* number of times give the same root.
C4_RootDependsOnBagOnly ==
    (/\ pc = "built"
     /\ IsBatch(prevBatch)
     /\ IsPermutation(Values(prevHashes), Values(hashes)))
    => IsBatch(batch) /\ batch.root = prevBatch.root

\* an input was rebuilt with one hash spelled without its 0x prefix
C4_Witness ==
    /\ pc = "built"
    /\ IsBatch(prevBatch)
    /\ Len(hashes) >= 2
    /\ Len(hashes) = Len(prevHashes)
    /\ \E i \in 1..Len(hashes) :
          /\ hashes[i] = Slice(prevHashes[i], 2)
          /\ \A j \in 1..Len(hashes) : j # i => hashes[j] = prevHashes[j]
    /\ batch.root = prevBatch.root

LevelSizes(tree) == [L \in 1..Len(tree) |-> Len(tree[L])]

\* C5: shape of every batch: tree[0] is leaves, the ascending sort of the
\* normalized inputs; the last level is the root alone; every level has
\* ceil(n/2) nodes for the n below, each the hashPair of the pair below it
\* (the last with itself when n is odd); leaf_count is the number of
\* leaves; 4 leaves give 4,2,1, 3 leaves 3,2,1 and 1 leaf a single level.
C5_BatchShape ==
    pc # "input" =>
        /\ IsBatch(batch)
        /\ batch.tree[1] = batch.leaves
        /\ IsPermutation(batch.leaves,
               [i \in 1..Len(hashes) |-> <<C("0"), C("x")>> \o HashValue(hashes[i])])
        /\ \A i \in 1..(Len(batch.leaves) - 1) :
              ~StrLess(batch.leaves[i + 1], batch.leaves[i])
        /\ batch.tree[Len(batch.tree)] = <<batch.root>>
        /\ \A L \in 1..(Len(batch.tree) - 1) :
              LET below == batch.tree[L]
                  above == batch.tree[L + 1]
              IN  /\ Len(above) = (Len(below) + 1) \div 2
                  /\ \A p \in 1..Len(above) :
                        above[p] = hashPair(below[2 * p - 1],
                                            IF 2 * p <= Len(below)
                                            THEN below[2 * p] ELSE below[2 * p - 1])
        /\ batch.leaf_count = Len(batch.leaves)
        /\ Len(hashes) = 4 => LevelSizes(batch.tree) = <<4, 2, 1>>
        /\ Len(hashes) = 3 => LevelSizes(batch.tree) = <<3, 2, 1>>
        /\ Len(hashes) = 1 => /\ LevelSizes(batch.tree) = <<1>>
                              /\ batch.root = batch.leaves[1]

\* a batch of three distinct leaves given out of order has been built
C5_Witness ==
    /\ IsBatch(batch)
    /\ LevelSizes(batch.tree) = <<3, 2, 1>>
    /\ Cardinality(Range(batch.leaves)) = 3
    /\ batch.leaves # [i \in 1..Len(hashes) |-> normalizeHash(hashes[i])]

(* Properties of the canonicalizer *)

\* the members of a text as the text lists them
RawParse(text) == ParseValue(text, 1, TRUE)
Parses(text) ==
    LET r == RawParse(text) IN r.ok /\ SkipWs(text, r.pos) = Len(text) + 1

RECURSIVE SortedKeys(_)
\* the keys of every object of a parsed text ascend in code unit order
SortedKeys(v) ==
    IF IsObject(v)
    THEN /\ \A i \in 1..(Len(v.obj) - 1) : StrLess(v.obj[i].key, v.obj[i + 1].key)
         /\ \A i \in 1..Len(v.obj) : SortedKeys(v.obj[i].val)
    ELSE IF IsArray(v) THEN \A i \in 1..Len(v.arr) : SortedKeys(v.arr[i])
    ELSE TRUE

RECURSIVE NoUndefinedKeys(_, _)
\* no key that holds undefined in the value appears in the parsed text
NoUndefinedKeys(in, out) ==
    IF IsObject(in)
    THEN /\ IsObject(out)
         /\ \A i \in 1..Len(in.obj) :
               IF IsUndefined(in.obj[i].val) THEN ~HasKey(out.obj, in.obj[i].key)
               ELSE /\ HasKey(out.obj, in.obj[i].key)
                    /\ NoUndefinedKeys(in.obj[i].val, Get(out, in.obj[i].key))
    ELSE IF IsArray(in)
    THEN LET kept == SelectSeq(in.arr, LAMBDA e : ~IsUndefined(e))
         IN  /\ IsArray(out)
             /\ Len(out.arr) = Len(kept)
             /\ \A i \in 1..Len(kept) : NoUndefinedKeys(kept[i], out.arr[i])
    ELSE TRUE

\* a space outside the string literals of a text
SpaceBetweenTokens(text) ==
    \E i \in 1..Len(text) :
        /\ text[i] = C(" ")
        /\ Cardinality({j \in 1..(i - 1) : text[j] = C("\"")}) % 2 = 0

\* C7: in the text canonicalize returns for a mapping, the keys of every
\* object at every depth (also inside arrays) ascend in code point order,
\* no key holding undefined appears, and there is no whitespace between
\* tokens.
C7_CanonicalForm ==
    (pc # "cbuild" /\ IsObject(cinput)) =>
        /\ ~IsThrown(cout)
        /\ Parses(cout.value)
        /\ SortedKeys(RawParse(cout.value).val)
        /\ NoUndefinedKeys(cinput, RawParse(cout.value).val)
        /\ ~SpaceBetweenTokens(cout.value)

\* C8: canonicalize throws for every top-level value that is not a mapping
\* (null, undefined, string, number, boolean, array) and returns a string
\* only for a mapping.
C8_OnlyMappingsAccepted ==
    pc # "cbuild" => (IsThrown(cout) <=> ~IsObject(cinput))

\* C9: the canonical text of a mapping is canonical and canonicalizes to
\* itself; isCanonical(t) is true exactly when t parses and re-canonicalizes
\* to t, and false when t does not parse, lists keys out of order or has
\* whitespace between tokens.
C9_RoundTrip ==
    pc = "cchecked" =>
        /\ (textKind = "canonical" /\ IsObject(cinput)) =>
              /\ isCan
              /\ recanon = cout
        /\ isCan <=> (~IsThrown(recanon) /\ recanon.value = ctext)
        /\ (\/ ~Parses(ctext)
            \/ ~SortedKeys(RawParse(ctext).val)
            \/ SpaceBetweenTokens(ctext)) => ~isCan

(* Properties of the record hasher *)

\* C6: hashInference returns the same hash for logically equal records:
\* records that differ in the order of their fields at any depth, in the
\* letter case of prompt_hash/output_hash, or in whether a parameters or
\* context mapping that holds no value after canonicalization is left out
\* or present.
C6_LogicallyEqualSameHash ==
    (pc = "hashed" /\ lastEdit # "none") => recHash = prevRecHash

(* Properties of verifyInference *)

\* the hash verifyInference works with: recomputed from the record when one
\* is supplied, otherwise the supplied hash
WorkingHash(input) ==
    IF ~IsUndefined(input.record) THEN hashInference(input.record) ELSE input.hash.str

\* b is a stored batch that contains hash h, and prf is the proof generated
\* from it, which verifies against the root of b
ProvenIn(b, h, prf) ==
    /\ \E j \in 1..Len(b.leaves) : toLowerCase(b.leaves[j]) = toLowerCase(h)
    /\ prf = generateProof(b, h)
    /\ IsProof(prf)
    /\ prf.root = b.root
    /\ verifyProof(prf) = Returned(TRUE)

\* the anchor fields of result r are those of anchor record a
CarriesAnchor(r, a) ==
    /\ r.tx_hash = StrV(a.tx_hash)
    /\ r.block_number = Num(a.block_number)
    /\ r.chain_id = Num(a.chain_id)
    /\ r.chain_name = Name(a.chain_name)
    /\ r.anchored_at = Num(a.anchored_at)

\* C10: verifyInference returns verified = true only if a stored batch
\* contains the recomputed or supplied hash, the proof generated from that
\* batch verifies against the root of that batch, an anchor record exists
\* for that root and, when a live read endpoint was supplied, the registry
\* returned a non-zero anchoredAt for that root.  The result then carries
\* the root of the batch, the full proof, the tx_hash, block_number,
\* chain_id, chain_name and anchored_at of the anchor record, and no error.
C10_VerifiedOnlyIfAnchored ==
    (IsResult(vresult) /\ vresult.verified) =>
        /\ vresult.inference_hash = WorkingHash(vinput.input)
        /\ \E i \in 1..Len(batches) :
              /\ ProvenIn(batches[i], vresult.inference_hash, vresult.proof)
              /\ vresult.merkle_root = StrV(batches[i].root)
              /\ \E k \in 1..Len(anchors) :
                    /\ toLowerCase(anchors[k].merkle_root) = toLowerCase(batches[i].root)
                    /\ CarriesAnchor(vresult, anchors[k])
              /\ vinput.options.endpoint # "none" =>
                    /\ ~IsThrown(vread)
                    /\ vread.value # 0
                    /\ vread.value = anchoredAtOf(anchoredAt[vinput.options.endpoint],
                                                  batches[i].root)
        /\ vresult.error = Undefined

\* a record was verified with a live read of the registry
C10_Witness ==
    /\ IsResult(vresult)
    /\ vresult.verified
    /\ ~IsUndefined(vinput.input.record)
    /\ vinput.options.endpoint = "chainA"
    /\ vread.value # 0

\* hash h is among the leaves of stored batch b
AmongLeaves(b, h) ==
    \E j \in 1..Len(b.leaves) : toLowerCase(b.leaves[j]) = toLowerCase(h)

\* a result is out for verifyInference({hash: h}) called without a live
\* read endpoint
HashOnlyResult ==
    /\ IsResult(vresult)
    /\ IsUndefined(vinput.input.record)
    /\ Truthy(vinput.input.hash)
    /\ vinput.options.endpoint = "none"

\* C11: whenever some stored batch has h among its leaves and an anchor
\* record exists for the root of that batch, verifyInference({hash: h})
\* without a live read endpoint returns verified = true, with the
\* merkle_root of that batch and the block_number, chain_id and chain_name
\* of an anchor record of that root.
C11_AnchoredLeafVerifies ==
    HashOnlyResult =>
        \A i \in 1..Len(batches) :
            (/\ AmongLeaves(batches[i], vinput.input.hash.str)
             /\ \E k \in 1..Len(anchors) :
                   toLowerCase(anchors[k].merkle_root) = toLowerCase(batches[i].root))
            => /\ vresult.verified
               /\ vresult.merkle_root = StrV(batches[i].root)
               /\ \E k \in 1..Len(anchors) :
                     /\ toLowerCase(anchors[k].merkle_root) = toLowerCase(batches[i].root)
                     /\ CarriesAnchor(vresult, anchors[k])

\* the collaborators of verifyInference in the order of its stages: the
\* batch store, the anchor store, the registry read
StageOrder == <<"findBatchContainingHash", "getAnchorByRoot", "anchoredAt">>

IsPrefix(a, b) == Len(a) <= Len(b) /\ a = SubSeq(b, 1, Len(a))

\* stage 1 resolves an identity for the input
Resolved(input) ==
    IF ~IsUndefined(input.record)
    THEN Truthy(input.hash) => verifyInferenceHash(input.record, input.hash.str)
    ELSE Truthy(input.hash)

\* the place of the batch the batch store answers with for hash h, or 0
FirstHolding(h) == FirstIndex({i \in 1..Len(batches) : AmongLeaves(batches[i], h)})

HasAnchor(root) ==
    \E k \in 1..Len(anchors) : toLowerCase(anchors[k].merkle_root) = toLowerCase(root)

NotBatched == Msg("Inference not found in any batch")
NotAnchored == Msg("Batch not anchored on-chain")

\* the collaborators queried by a call that ended with result r
QueriedFor(r, options) ==
    IF r.verified
    THEN IF options.endpoint = "none" THEN SubSeq(StageOrder, 1, 2) ELSE StageOrder
    ELSE IF r.error \in {Msg("Must provide either record or hash"),
                         Msg("Provided hash does not match computed hash from record")}
    THEN <<>>
    ELSE IF r.error \in {NotBatched, Msg("Failed to generate Merkle proof"),
                         Msg("Merkle proof verification failed")}
    THEN SubSeq(StageOrder, 1, 1)
    ELSE IF r.error = NotAnchored
    THEN SubSeq(StageOrder, 1, 2)
    ELSE StageOrder

\* C12: verifyInference queries its collaborators in the order batch store,
\* anchor store, registry read, and stops at the first stage that fails:
\* the collaborators queried are exactly those up to the stage whose cause
\* the result carries.  A hash in no stored batch yields the not-batched
\* cause, with the batch store the only collaborator queried; a hash whose
\* batch has a root without anchor record yields the not-anchored cause
\* with merkle_root and proof populated and no registry read.
C12_StagesInOrder ==
    /\ IsPrefix(vqueried, StageOrder)
    /\ vcall # NoCall => vqueried = SubSeq(StageOrder, 1, 2)
    /\ IsResult(vresult) =>
          /\ vqueried = QueriedFor(vresult, vinput.options)
          /\ Resolved(vinput.input) =>
                LET h == WorkingHash(vinput.input)
                    at == FirstHolding(h)
                IN  /\ at = 0 =>
                          /\ vresult.error = NotBatched
                          /\ vresult.merkle_root = Undefined
                          /\ vresult.proof = Undefined
                    /\ (at # 0 /\ ~HasAnchor(batches[at].root)) =>
                          /\ vresult.error = NotAnchored
                          /\ vresult.merkle_root = StrV(batches[at].root)
                          /\ ProvenIn(batches[at], h, vresult.proof)

\* a hash of an unanchored batch was verified while another root has an
\* anchor record
C12_Witness ==
    /\ IsResult(vresult)
    /\ vresult.error = NotAnchored
    /\ IsProof(vresult.proof)
    /\ Len(anchors) > 0
    /\ vqueried = SubSeq(StageOrder, 1, 2)

\* the batch store answered that no batch holds the hash
C12_WitnessNotBatched ==
    /\ IsResult(vresult)
    /\ vresult.error = NotBatched
    /\ Len(batches) > 0

(* Causes of a failed verification *)

\* the stage of verifyInference that fails for the call whose result is out,
\* told from the input, the stores and the registry read alone
FailedStage ==
    LET input == vinput.input
        at == FirstHolding(WorkingHash(input))
    IN  IF IsUndefined(input.record) /\ ~Truthy(input.hash) THEN "missing input"
        ELSE IF ~Resolved(input) THEN "hash mismatch"
        ELSE IF at = 0 THEN "not batched"
        ELSE IF IsNull(generateProof(batches[at], WorkingHash(input)))
        THEN "proof generation failed"
        ELSE IF verifyProof(generateProof(batches[at], WorkingHash(input))) # Returned(TRUE)
        THEN "proof invalid"
        ELSE IF ~HasAnchor(batches[at].root) THEN "not anchored"
        ELSE IF vinput.options.endpoint = "none" THEN "none"
        ELSE IF IsThrown(vread) THEN "chain read failed"
        ELSE IF vread.value = 0 THEN "on-chain root absent"
        ELSE "none"

FailingStages ==
    {"missing input", "hash mismatch", "not batched", "proof generation failed",
     "proof invalid", "not anchored", "on-chain root absent", "chain read failed"}

\* the error strings that name a failing stage
ErrorsOf(stage) ==
    CASE stage = "missing input" -> {Msg("Must provide either record or hash")}
      [] stage = "hash mismatch" ->
            {Msg("Provided hash does not match computed hash from record")}
      [] stage = "not batched" -> {NotBatched}
      [] stage = "proof generation failed" -> {Msg("Failed to generate Merkle proof")}
      [] stage = "proof invalid" -> {Msg("Merkle proof verification failed")}
      [] stage = "not anchored" -> {NotAnchored}
      [] stage = "on-chain root absent" ->
            {Msg("On-chain verification failed: Root not found on-chain")}
      [] stage = "chain read failed" ->
            {Msg("On-chain check failed: " \o text) : text \in {"network error", "Unknown error"}}

\* C13: every result of verifyInference with verified = false carries a
\* non-empty error string; the string is one that names the stage that
\* failed, and no string names two stages; the response of POST /api/verify
\* carries the verdict and the error of the result.
C13_CauseDistinguishes ==
    /\ \A s1, s2 \in FailingStages : s1 # s2 => ErrorsOf(s1) \cap ErrorsOf(s2) = {}
    /\ (IsResult(vresult) /\ ~vresult.verified) =>
          /\ vresult.error # Undefined
          /\ vresult.error.msg # ""
          /\ FailedStage \in FailingStages
          /\ vresult.error \in ErrorsOf(FailedStage)
    /\ (IsResult(vresult) /\ vresult.verified) => FailedStage = "none"
    /\ "body" \in DOMAIN response =>
          /\ IsResult(vresult)
          /\ response.body.verified = vresult.verified
          /\ response.body.error = vresult.error

\* POST /api/verify answered for a hash whose batch is not anchored
C13_Witness ==
    /\ "body" \in DOMAIN response
    /\ ~response.body.verified
    /\ response.body.error = NotAnchored

HashMismatch == Msg("Provided hash does not match computed hash from record")

\* C14: given a record and a hash, verifyInference returns verified = false
\* with the hash-mismatch cause exactly when the hash differs from
\* hashInference(record) after case and prefix normalization, and then it
\* queries neither the batch store nor the anchor store; when they agree it
\* goes on with the hash recomputed from the record.  Given neither, it
\* returns verified = false with the missing-input cause.
C14_HashMismatch ==
    IsResult(vresult) =>
        LET input == vinput.input
        IN  /\ (~IsUndefined(input.record) /\ Truthy(input.hash)) =>
                  LET differs == HashValue(input.hash.str)
                                    # HashValue(hashInference(input.record))
                  IN  /\ vresult.error = HashMismatch <=> differs
                      /\ vresult.inference_hash = hashInference(input.record)
                      /\ differs => ~vresult.verified /\ vqueried = <<>>
                      /\ ~differs =>
                            /\ vqueried # <<>>
                            /\ Head(vqueried) = "findBatchContainingHash"
                            /\ FirstHolding(hashInference(input.record)) # 0
                                  => vresult.proof.leaf = hashInference(input.record)
            /\ (IsUndefined(input.record) /\ ~Truthy(input.hash)) =>
                  /\ ~vresult.verified
                  /\ vresult.error = Msg("Must provide either record or hash")
                  /\ vqueried = <<>>

\* a record was verified together with a hash that is not its hash
C14_Witness ==
    /\ IsResult(vresult)
    /\ ~IsUndefined(vinput.input.record)
    /\ Truthy(vinput.input.hash)
    /\ vresult.error = HashMismatch
    /\ Len(batches) > 0

\* a record was verified together with its hash in another spelling
C14_WitnessAgree ==
    /\ IsResult(vresult)
    /\ ~IsUndefined(vinput.input.record)
    /\ Truthy(vinput.input.hash)
    /\ vinput.input.hash.str # hashInference(vinput.input.record)
    /\ vresult.verified

\* stages 1 to 4 pass for the call whose input is vinput
StoredStagesPass ==
    /\ Resolved(vinput.input)
    /\ FirstHolding(WorkingHash(vinput.input)) # 0
    /\ HasAnchor(batches[FirstHolding(WorkingHash(vinput.input))].root)

\* C15: with a live read endpoint and stages 1 to 4 passed, verifyInference
\* reads anchoredAt(root) exactly once.  A zero answer gives verified =
\* false with the on-chain-mismatch cause; a read that raises gives
\* verified = false with the message of the error in the cause, and the
\* call still returns a result; only a non-zero answer gives verified =
\* true.  Without an endpoint, or when an earlier stage failed, no read is
\* made.
C15_SingleLiveRead ==
    /\ vcall # NoCall => Count("anchoredAt", vqueried) = 0
    /\ vresult # NoResult =>
          /\ IsResult(vresult)
          /\ IF vinput.options.endpoint # "none" /\ StoredStagesPass
             THEN /\ Count("anchoredAt", vqueried) = 1
                  /\ IF IsThrown(vread)
                     THEN /\ ~vresult.verified
                          /\ vresult.error = Msg("On-chain check failed: " \o vread.error)
                     ELSE IF vread.value = 0
                     THEN /\ ~vresult.verified
                          /\ vresult.error =
                                Msg("On-chain verification failed: Root not found on-chain")
                     ELSE /\ vresult.verified
                          /\ vread.value =
                                anchoredAtOf(anchoredAt[vinput.options.endpoint],
                                             vresult.merkle_root.str)
             ELSE Count("anchoredAt", vqueried) = 0

\* the live read of a call raised
C15_Witness ==
    /\ IsResult(vresult)
    /\ vinput.options.endpoint # "none"
    /\ IsThrown(vread)
    /\ Count("anchoredAt", vqueried) = 1

\* the registry of the endpoint does not hold the root of an anchored batch
C15_WitnessAbsent ==
    /\ IsResult(vresult)
    /\ vinput.options.endpoint # "none"
    /\ vread = Returned(0)
    /\ Count("anchoredAt", vqueried) = 1

(* Properties of explainVerification *)

\* the claims that the stages run for a verified result establish: the
\* proof generated from the batch verifies against its root, and anchor
\* record a places that root in a block of a chain
EstablishedBy(a) ==
    {Line("The inference metadata existed at the time of anchoring"),
     Line("The inference has not been modified since it was batched"),
     Template("The batch was anchored before block ", NatToStr(a.block_number)),
     Line("The Merkle proof is mathematically valid"),
     Template("The root is stored on ", a.chain_name)}

\* C16: what_is_not_proven and trust_assumptions of every explanation are
\* the same two lists whatever the verdict; what_is_proven is the single
\* entry 'Unable to verify inference' when verified is false; when verified
\* is true every entry of what_is_proven is a claim established by the
\* stages that ran for the result: the proof check against the root of the
\* batch found and the anchor record found for that root.
C16_ExplainByVerdict ==
    "explain" \in DOMAIN response =>
        LET e == response.explain
            r == response.explained
        IN  /\ e.what_is_not_proven = WhatIsNotProven
            /\ e.trust_assumptions = TrustAssumptions
            /\ Len(e.what_is_not_proven) = 7
            /\ Len(e.trust_assumptions) = 5
            /\ ~r.verified => e.what_is_proven = <<Line("Unable to verify inference")>>
            /\ r.verified =>
                  /\ r = vresult
                  /\ vqueried = SubSeq(StageOrder, 1, 2)
                  /\ e.what_is_proven # <<>>
                  /\ \E i \in 1..Len(batches), k \in 1..Len(anchors) :
                        /\ ProvenIn(batches[i], r.inference_hash, r.proof)
                        /\ toLowerCase(anchors[k].merkle_root) = toLowerCase(batches[i].root)
                        /\ \A n \in 1..Len(e.what_is_proven) :
                              e.what_is_proven[n] \in EstablishedBy(anchors[k])

\* a verified inference was explained
C16_Witness ==
    /\ "explain" \in DOMAIN response
    /\ response.explained.verified
    /\ Len(response.explain.what_is_proven) = 5

\* an inference that does not verify was explained
C16_WitnessUnable ==
    /\ "explain" \in DOMAIN response
    /\ ~response.explained.verified
    /\ response.explained.error = NotAnchored

(* Properties of the registry *)

\* what holds of the last transaction and of the last answers of the views
RegistryState ==
    /\ txs # <<>> =>
          /\ IsZeroRoot(txs[1].merkle_root) => txs[1].stage = "InvalidRoot"
          /\ txs[1].stage = "mined" =>
                anchoredAtOf(anchoredAt[txs[1].chain], txs[1].merkle_root) # 0
    /\ response.code = "view" =>
          /\ response.isAnchored =
                (anchoredAtOf(anchoredAt[response.chain], response.root) # 0)
          /\ response.timestamp = anchoredAtOf(anchoredAt[response.chain], response.root)
    /\ \A chain \in Chains :
          \A e1, e2 \in anchoredAt[chain] : e1.root = e2.root => e1 = e2

\* what holds of every step of the registry
RegistryStep ==
    /\ \A chain \in Chains, root \in RegistryRoots :
          anchoredAtOf(anchoredAt[chain], root) # 0 =>
              /\ anchoredAtOf(anchoredAt'[chain], root) = anchoredAtOf(anchoredAt[chain], root)
              /\ (txs' # txs /\ txs'[1].chain = chain
                             /\ toLowerCase(txs'[1].merkle_root) = toLowerCase(root))
                    => txs'[1].stage = "RootAlreadyAnchored"
    /\ (txs' # txs /\ txs'[1].stage # "mined") => anchoredAt' = anchoredAt

\* C17: the registry is append-only and anchors each root at most once:
\* anchorRoot(0) always reverts; anchorRoot(r) reverts when anchoredAt[r] is
\* non-zero; a reverted call leaves every entry unchanged; an entry that is
\* non-zero keeps its value in every later state; isAnchored(r) is true
\* exactly when anchoredAt[r] is non-zero.
C17_AppendOnlyOncePerRoot ==
    []RegistryState /\ [][RegistryStep]_vars

\* a root anchored in an earlier block was sent again and the call reverted
C17_Witness ==
    /\ pc = "registry"
    /\ txs # <<>>
    /\ txs[1].stage = "RootAlreadyAnchored"
    /\ anchoredAtOf(anchoredAt[txs[1].chain], txs[1].merkle_root) \in 1..(clock - 1)

(* Properties of the anchor store *)

\* C18: after any sequence of POST /api/anchor requests the anchor store
\* holds at most one anchor record for each Merkle root.
C18_OneAnchorPerRoot ==
    \A k1, k2 \in 1..Len(anchors) :
        toLowerCase(anchors[k1].merkle_root) = toLowerCase(anchors[k2].merkle_root)
            => k1 = k2

(* The CLI against the server *)

\* C19: for every inference record, whatever the spelling of prompt_hash
\* and output_hash (with or without the 0x prefix), the nesting of
\* parameters and context and the presence of timestamp and nonce, the
\* CLI's hashInference returns what the server's hashInference returns.
C19_CliHashEqualsServerHash ==
    pc = "hashed" => cliHash = recHash

(* Properties of the pairwise combination *)

Has0xPrefix(h) == StartsWith0x(toLowerCase(h))

\* C20: hashPair(a, b) = hashPair(b, a) and combineHashes(a, b) =
\* combineHashes(b, a) for all hashes a and b, and hashPair(a, b) =
\* combineHashes(a, b) for every pair of 0x-prefixed hashes.
C20_CombineCommutes ==
    pc = "combined" =>
        /\ combos.hashPair[1] = combos.hashPair[2]
        /\ combos.combineHashes[1] = combos.combineHashes[2]
        /\ (Has0xPrefix(operands[1]) /\ Has0xPrefix(operands[2])) =>
              combos.hashPair[1] = combos.combineHashes[1]

\* two different 0x-prefixed hashes were combined, the first operand being
\* the one that sorts last
C20_Witness ==
    /\ pc = "combined"
    /\ Has0xPrefix(operands[1])
    /\ Has0xPrefix(operands[2])
    /\ StrLess(normalizeHash(operands[2]), normalizeHash(operands[1]))
    /\ ~IsThrownStr(combos.combineHashes[1])

(* Properties of verifyInferenceHash *)

\* two texts that differ in letter case only
SameIgnoringCase(a, b) == toLowerCase(a) = toLowerCase(b)

\* C21: verifyInferenceHash(record, claimed) is true exactly when claimed,
\* compared without regard to letter case and with or without its 0x
\* prefix, equals hashInference(record); it is false for every other
\* claimed hash.
C21_VerifyHashExactlyOwn ==
    pc = "claimed" =>
        LET own == hashInference(record)
        IN  matches <=> \/ SameIgnoringCase(claimed, own)
                        \/ SameIgnoringCase(claimed, Slice(own, 2))

\* the record's own hash, claimed without its 0x prefix, was accepted
C21_Witness ==
    /\ pc = "claimed"
    /\ claimed = Spell(hashInference(record), "bare")
    /\ matches

\* the hash of another record was rejected
C21_WitnessOther ==
    /\ pc = "claimed"
    /\ claimed = Spell(hashInference(OtherModel(record)), "upper")
    /\ ~matches

(* Properties of buildMerkleBatch and computeRoot on any list *)

\* C22: buildMerkleBatch and computeRoot raise an error when given an empty
\* list of hashes and return no batch; for every non-empty list of hashes
\* they return a batch and its root without raising.
C22_EmptyListRaises ==
    pc = "built" =>
        IF Len(hashes) = 0
        THEN /\ IsThrown(batch)
             /\ ~IsBatch(batch)
             /\ IsThrownStr(computed)
        ELSE /\ IsBatch(batch)
             /\ ~IsThrown(batch)
             /\ ~IsThrownStr(computed)
             /\ computed = batch.root

\* both were called with the empty list
C22_Witness ==
    /\ pc = "built"
    /\ hashes = <<>>
    /\ IsThrown(batch)

\* both were called with a list of three hashes, one without its prefix
C22_WitnessBuilt ==
    /\ pc = "built"
    /\ Len(hashes) = 3
    /\ Spell(Leaf3, "bare") \in Range(hashes)
    /\ IsBatch(batch)

(* Properties of generateProof *)

\* positions (from 1) of the sorted leaves equal to the normalized target
PositionsOf(leaves, h) ==
    {i \in 1..Len(leaves) : leaves[i] = <<C("0"), C("x")>> \o HashValue(h)}

\* C23: generateProof(batch, target) returns null, without raising, exactly
\* when the normalized target equals no element of batch.leaves; when it is
\* present the proof carries leaf_index equal to the target's first
\* position in the sorted leaves, root equal to batch.root, and a sibling
\* path with exactly (number of tree levels - 1) entries.
C23_ProofOrNull ==
    pc \in {"proved", "verified"} =>
        LET present == PositionsOf(batch.leaves, target)
        IN  IF present = {} THEN proof = NULL
            ELSE /\ IsProof(proof)
                 /\ \A i \in present : proof.leaf_index + 1 <= i
                 /\ proof.leaf_index + 1 \in present
                 /\ proof.root = batch.root
                 /\ Len(proof.proof) = Len(batch.tree) - 1

\* a proof was generated for a hash the batch holds twice, asked for in
\* upper case, in a tree of three levels
C23_Witness ==
    /\ pc = "proved"
    /\ IsProof(proof)
    /\ Cardinality(PositionsOf(batch.leaves, target)) = 2
    /\ target = toUpperCase(target)
    /\ target # toLowerCase(target)
    /\ Len(batch.tree) = 3
    /\ Len(proof.proof) = 2

\* generateProof returned null for a hash that is no leaf of the batch
C23_WitnessAbsent ==
    /\ pc = "proved"
    /\ PositionsOf(batch.leaves, target) = {}
    /\ proof = NULL

(* Properties of the root over two lists *)

\* the set of 32-byte values a list of hashes spells
LeafSet(list) == {HashValue(list[i]) : i \in 1..Len(list)}

\* C24: distinct leaf sets give distinct roots: for any two non-empty
\* inputs whose sets of normalized hashes differ, computeRoot returns
\* different roots (the digest function is collision-free; a leaf may be
\* the digest of a pair of other leaves).
C24_DistinctSetsDistinctRoots ==
    (/\ pc = "built"
     /\ Len(prevHashes) > 0
     /\ Len(hashes) > 0
     /\ LeafSet(prevHashes) # LeafSet(hashes))
        => computed # prevComputed

(* Properties of verifyProof on any proof *)

\* C25: a verifying proof proves leaf membership: for every batch B built
\* by buildMerkleBatch and every proof p, of any path length and any
\* leaf_index, with p.root = B.root, verifyProof(p) = true implies that
\* p.leaf is one of B.leaves (the digest function is collision-free).
C25_VerifiedLeafIsMember ==
    (/\ pc = "tverified"
     /\ tampered.root = batch.root
     /\ valid = Returned(TRUE))
        => \E i \in 1..Len(batch.leaves) :
              HashValue(batch.leaves[i]) = HashValue(tampered.leaf)

(* Properties of verifyInference over the spellings of a hash *)

\* what verifyInference({hash: h}) returns in the present state of the
\* stores
VerdictFor(h) ==
    verifyInferenceStart([record |-> Undefined, hash |-> StrV(h)],
                         [endpoint |-> "none"], batches, anchors).out.verified

\* C26: the verdict of verifyInference({hash: h}) is the same for every
\* spelling of the same hash, upper-case or lower-case hex digits and with
\* or without the 0x prefix, in every state of the stores.
C26_VerdictSameForSpellings ==
    HashOnlyResult =>
        \A kind \in SpellKinds :
            VerdictFor(Spell(normalizeHash(vinput.input.hash.str), kind))
                = vresult.verified

(* Properties of concurrent inference and batch requests *)

\* the leaves of a batch, as a set
LeavesOf(b) == {toLowerCase(b.leaves[j]) : j \in 1..Len(b.leaves)}

\* a POST /api/batch request without batch_size has sent its response
DefaultBatchCompleted ==
    /\ "kind" \in DOMAIN response
    /\ response.kind = "batch"
    /\ IsUndefined(response.body.batch_size)

\* C27: under any interleaving of concurrent POST /api/inference and
\* default POST /api/batch requests, no inference hash is a leaf of two
\* batches, and once a default batch request without batch_size has
\* completed, every inference stored before it started is a leaf of some
\* stored batch.
C27_DefaultSelectionAtomic ==
    pc = "concurrent" =>
        /\ \A i, j \in 1..Len(batches) :
              i # j => LeavesOf(batches[i]) \cap LeavesOf(batches[j]) = {}
        /\ DefaultBatchCompleted =>
              \A h \in response.before :
                  \E i \in 1..Len(batches) : toLowerCase(h) \in LeavesOf(batches[i])

\* two batch requests were in flight together with an inference request
\* between them, and the second one, which found one more inference, has
\* completed while the first has not
C27_Witness ==
    /\ pc = "concurrent"
    /\ DefaultBatchCompleted
    /\ response.status = 201
    /\ Cardinality(response.before) = 2
    /\ Len(batches) = 2
    /\ Len(inflight) = 1
    /\ inflight[1].kind = "batch"
    /\ Cardinality(inflight[1].before) = 1

(* Properties of POST /api/anchor requests that fail *)

\* the codes of the error responses of POST /api/anchor
AnchorErrorCodes ==
    {"INVALID_CHAIN", "CONTRACT_NOT_DEPLOYED", "BATCH_NOT_FOUND", "NO_BATCHES",
     "ALREADY_ANCHORED", "INTERNAL_ERROR"}

\* a step in which a POST /api/anchor request ends in an error response
\* leaves both stores as they were when that request began: the request of
\* the step itself, or the request that waited for transaction i
AnchorErrorStep ==
    /\ (/\ response = NoResponse
        /\ response'.code \in AnchorErrorCodes
        /\ txs' = txs)
          => /\ batches' = batches
             /\ anchors' = anchors
    /\ \A i \in 1..Len(txs) :
          (/\ Len(txs') = Len(txs) - 1
           /\ \A j \in 1..Len(txs') : txs'[j] = txs[IF j < i THEN j ELSE j + 1]
           /\ response'.code \in AnchorErrorCodes)
             => /\ batches' = txs[i].before.batches
                /\ anchors' = txs[i].before.anchors

\* C28: a POST /api/anchor request that ends in an error response (unknown
\* chain, missing configuration, batch not found, no unanchored batches,
\* reverted or failed transaction, root already anchored) leaves the batch
\* store and the anchor store exactly as they were before the request, for
\* each of the three ways of choosing what to anchor.
C28_ErrorLeavesStores == [][AnchorErrorStep]_vars

(* Properties of the default selection of POST /api/anchor over time *)

\* batch i is stored
BatchStored(i) == Len(batches) >= i

\* an anchor record for the root of batch i is stored
AnchoredLocally(i) ==
    /\ Len(batches) >= i
    /\ ~IsUndefined(getAnchorByRoot(anchors, batches[i].root))

\* C29: every stored batch is eventually anchored locally: if POST
\* /api/anchor requests with neither batch_id nor hashes are issued
\* repeatedly and the registry accepts every valid transaction, then for every
\* stored batch an anchor record for its root is eventually stored, whatever
\* other anchorRoot calls are made against the public registry and even if an
\* earlier request failed after its transaction was mined.
C29_EveryBatchEventuallyAnchored ==
    \A i \in 1..MaxBatches : BatchStored(i) ~> AnchoredLocally(i)

(* Properties of the anchor records in the local store *)

\* the chains of config/chains.json whose display name is name
ChainsNamed(name) ==
    {chain \in DOMAIN ChainsConfig.chains : ChainsConfig.chains[chain].name = name}

\* the record's root is anchored in the registry of the chain the record
\* names, and the record's batch is stored with that root
AnchorRecordBacked(anchor) ==
    /\ \E chain \in ChainsNamed(anchor.chain_name) \cap Chains :
          /\ ChainsConfig.chains[chain].chainId = anchor.chain_id
          /\ anchoredAtOf(anchoredAt[chain], anchor.merkle_root) # 0
    /\ ~IsUndefined(getBatch(batches, anchor.batch_id))
    /\ getBatch(batches, anchor.batch_id).root = anchor.merkle_root

\* C30: in every state reachable through the API, each anchor record in the
\* local store refers to a root that is anchored in the registry (anchoredAt
\* non-zero) on the chain named in the record: an anchor record is stored only
\* after the anchorRoot transaction for its root has been mined successfully,
\* and its batch_id names a stored batch whose root equals the record's
\* merkle_root.
C30_AnchorRecordsBacked ==
    \A i \in 1..Len(anchors) : AnchorRecordBacked(anchors[i])

\* anchor records are stored for roots anchored on two different chains
C30_Witness ==
    /\ Len(anchors) = 2
    /\ anchors[1].chain_name # anchors[2].chain_name
    /\ \A i \in 1..2 : AnchorRecordBacked(anchors[i])

====
